---- MODULE Spec2Model ----
(***************************************************************************)
(* A model of wikilinker: the shared matching core                         *)
(* (server/shared/matcher-core.js), the server's EntityMatcher             *)
(* (server/lib/matcher.js), the structural skip rules                      *)
(* (server/shared/skip-rules.js) and the two tree walks that splice links  *)
(* (lib/injector.js on the server, extension/src/content.js in the         *)
(* browser); then the server's request handler (server/server.js) with    *)
(* its article extractor (server/lib/readability.js), the page fetcher     *)
(* (server/lib/fetcher.js) and the page cache (server/lib/cache.js).       *)
(*                                                                         *)
(* Text is a TLA+ string; a character is a string of length one.  Indexes  *)
(* are JavaScript's: the first character of a text has index 0.            *)
(***************************************************************************)
EXTENDS Integers, Sequences, FiniteSets, TLC

VARIABLES
    text,           \* matcher harness: the text buffer handed to the matcher
    entitySet,      \* the catalogue (a set of titles)
    mpc,            \* matcher harness: which call comes next
    candidates,     \* result of extractCandidates(text)
    matches,        \* result of findMatches(text, entitySet)
    serverMatches,  \* result of EntityMatcher.findMatches(text, debug)
    inTextMatches,  \* result of findMatchesInText(text, knownEntities)
    skElement,      \* classifier harness: the element
    skClosestFn,    \* classifier harness: what closestFn does, per selector
    skGetClassFn,   \* classifier harness: what getClassFn does
    skpc,           \* classifier harness: "call" before, "done" after
    skResult,       \* result of shouldSkipElement
    page,           \* the page: each element's tag, attributes and class
    leafText,       \* the page as loaded: the text of each text node
    dom,            \* what stands in each text slot now
    roots,          \* the elements the article selector picked
    host,           \* "server" (injectWikilinks) or "extension" (processPage)
    debugArg,       \* injectWikilinks' debug argument
    knownArg,       \* injectWikilinks' knownEntities argument
    wpc,            \* "start", "walk" or "done"
    rootIdx,        \* how many roots the loop has handed to the walk
    stack,          \* the calls of processElement / walkAndProcess in progress
    linkedEntities, \* the ledger of the call
    debugInfo,      \* the lists of debugInfo (all empty when debug is off)
    matchLog,       \* the match log of the call
    linkCount,      \* processPage's count of links made
    lastMatches,    \* the matches of the text node handled last
    response,       \* what the call returned or sent
    extractor,      \* handler harness: what JSDOM and Readability do with the page
    readability,    \* result of extractWithReadability
    isIndex,        \* result of isIndexPage(targetUrl)
    spc,            \* handler: the step that comes next
    queue,          \* page harness: the pages to process, one call each
    calls,          \* page harness: how many calls have been started
    firstResult,    \* page harness: what the first call left behind
    fetchUrl,       \* fetchPage's urlString argument
    allowedDomains, \* fetchPage's options.allowedDomains
    responses,      \* fetcher harness: what the network answers, request by request
    currentUrl,     \* fetchPage's currentUrl
    redirects,      \* fetchPage's loop counter
    requested,      \* the URLs handed to fetch(), in order
    fetchResult,    \* what fetchPage returned or threw
    fpc,            \* fetchPage: the step that comes next
    cacheIndex,     \* Cache.index: the entries in insertion order
    cacheFiles,     \* the files in the cache directory
    now,            \* Date.now()
    cachePending,   \* the calls of Cache.set between evictIfNeeded and the write
    cacheOp,        \* the Cache step taken last
    settings,       \* content script: the settings object
    initPc,         \* content script: where init() stands
    delivered,      \* content script: how many settingsChanged messages have come
    entitySetNull,  \* content script: entitySet is still null
    cacheLoaded,    \* Cache.index is no longer null
    cacheDisk,      \* the index as index.json holds it
    cacheInits,     \* the calls of Cache.init in progress
    cacheLive       \* the keys set and neither evicted nor expired since

matcherVars == <<text, entitySet, mpc, candidates, matches, serverMatches, inTextMatches>>
skipVars == <<skElement, skClosestFn, skGetClassFn, skpc, skResult>>
walkInput == <<page, leafText, roots, host, debugArg, knownArg>>
walkState ==
    <<wpc, rootIdx, stack, dom, linkedEntities, debugInfo, matchLog, linkCount,
      lastMatches, response>>

serverVars == <<extractor, readability, isIndex, spc>>
pageVars == <<queue, calls, firstResult>>
fetchVars ==
    <<fetchUrl, allowedDomains, responses, currentUrl, redirects, requested,
      fetchResult, fpc>>
cacheVars == <<cacheIndex, cacheFiles, now, cachePending, cacheOp>>
contentVars == <<settings, initPc, delivered, entitySetNull>>
raceVars == <<cacheLoaded, cacheDisk, cacheInits, cacheLive>>
restVars == <<serverVars, pageVars, fetchVars, cacheVars, contentVars, raceVars>>

vars == <<matcherVars, skipVars, walkInput, walkState, restVars>>

NULL == "null"

-----------------------------------------------------------------------------
(* Characters and the regular-expression classes the code uses.            *)

UPPER_CHARS == "ABCDEFGHIJKLMNOPQRSTUVWXYZ"
LOWER_CHARS == "abcdefghijklmnopqrstuvwxyz"

CharsOf(s) == { SubSeq(s, i, i) : i \in 1..Len(s) }

Upper == CharsOf(UPPER_CHARS)                \* [A-Z]
Lower == CharsOf(LOWER_CHARS)                \* [a-z]
Digit == CharsOf("0123456789")
WordChars == Upper \cup Lower \cup Digit \cup {"_"}      \* \w
Space == {" ", "\n", "\t"}                   \* \s (the members that occur here)
CapsTail == Upper \cup Lower \cup {"'", "-"} \* [a-zA-Z'\-]
SentenceEnd == {".", "!", "?", ";"}          \* [.!?;]

\* U+2019 RIGHT SINGLE QUOTATION MARK and U+2018 LEFT SINGLE QUOTATION MARK:
\* the module's character set has neither, so two unused ASCII characters
\* (neither a word character nor white space, like the originals) stand for
\* them.
RSQUO == "^"
LSQUO == "~"

At(t, k) == SubSeq(t, k + 1, k + 1)          \* t[k]
Slice(t, a, b) == SubSeq(t, a + 1, b)        \* t.slice(a, b), 0 <= a <= b <= t.length

Max(S) == CHOOSE x \in S : \A y \in S : y <= x
Min(S) == CHOOSE x \in S : \A y \in S : x <= y
Range(s) == { s[i] : i \in 1..Len(s) }

\* \b at position p: exactly one of t[p-1], t[p] is a word character.
WordBoundary(t, p) ==
    LET before == p > 0 /\ At(t, p - 1) \in WordChars
        after == p < Len(t) /\ At(t, p) \in WordChars
    IN  (before /\ ~after) \/ (~before /\ after)

\* End of the longest run of characters of class S that starts at p.
RECURSIVE RunEnd(_, _, _)
RunEnd(t, p, S) ==
    IF p < Len(t) /\ At(t, p) \in S THEN RunEnd(t, p + 1, S) ELSE p

LowerOf(c) ==
    IF c \in Upper
    THEN At(LOWER_CHARS, CHOOSE i \in 0..25 : At(UPPER_CHARS, i) = c)
    ELSE c

RECURSIVE toLowerCase(_)
toLowerCase(s) ==
    IF Len(s) <= 1 THEN LowerOf(s)
    ELSE toLowerCase(Slice(s, 0, Len(s) \div 2))
         \o toLowerCase(Slice(s, Len(s) \div 2, Len(s)))

\* s.includes(pat)
Includes(s, pat) ==
    \E i \in 0..(Len(s) - Len(pat)) : Slice(s, i, i + Len(pat)) = pat

-----------------------------------------------------------------------------
(* server/shared/matcher-core.js                                           *)

\* Common words to skip.
SKIP_WORDS ==
    {"The", "This", "That", "There", "Their", "They", "What", "When",
     "Where", "Which", "Who", "Why", "How", "He", "She", "His", "Her",
     "Him", "Its", "We", "Our", "You", "Your", "My", "Monday", "Tuesday",
     "Wednesday", "Thursday", "Friday", "Saturday", "Sunday", "January",
     "February", "March", "April", "May", "June", "July", "August",
     "September", "October", "November", "December", "About", "After",
     "Again", "Album", "Also", "Ammunition", "Another", "Archive",
     "Assault", "Before", "Being", "Both", "But", "Cash", "Cast",
     "Category", "Christmas", "Code", "Contact", "Control", "Copyright",
     "Despite", "Download", "Each", "Email", "Error", "Even", "Every",
     "Everything", "Evidence", "Expect", "Family", "Film", "Fireworks",
     "First", "Following", "Former", "Free", "Freedom", "From", "General",
     "Golden", "Good", "Great", "Greatness", "Greed", "Here", "Image",
     "Indeed", "Just", "Keep", "Language", "Last", "Life", "Like", "Link",
     "List", "Live", "Machine", "Many", "Media", "Meanwhile", "Minutes",
     "More", "Most", "Much", "Name", "Nation", "Never", "New", "News",
     "Next", "Night", "Nobody", "None", "Nothing", "Number", "Office",
     "Often", "Only", "Other", "Over", "Page", "People", "Play", "Please",
     "Pointless", "Police", "Power", "Productivity", "Public", "Question",
     "Radio", "Real", "Same", "Service", "Several", "Sign", "Since",
     "Sniper", "Some", "South", "Special", "Stalemate", "State", "Steam",
     "Still", "Success", "Such", "Sunrise", "Time", "Title", "Today",
     "Together", "Very", "Watch", "Website", "Wedding", "Welcome", "Well",
     "While", "White", "Whole", "Woman", "Wood", "World", "Writer",
     "Year", "Zero", "North", "East", "West", "African", "American",
     "Arab", "Asian", "Australian", "Brazilian", "British", "Canadian",
     "Chinese", "Dutch", "Egyptian", "English", "European", "French",
     "German", "Greek", "Indian", "Iranian", "Iraqi", "Irish", "Islamic",
     "Israeli", "Italian", "Japanese", "Korean", "Latin", "Mexican",
     "Palestinian", "Polish", "Russian", "Scottish", "Spanish", "Swedish",
     "Turkish", "Ukrainian", "Vietnamese", "Welsh", "Academic",
     "Athletes", "Bureaucrat", "Cabinet", "Commons", "Conservative",
     "Constitution", "Creativity", "Customs", "Democracy", "Deputy",
     "Environment", "Geography", "Health", "History", "House",
     "Immigration", "Justice", "Liberal", "Ministry", "Opposition",
     "Parliament", "Partnership", "Poetry", "Prince", "Princess",
     "Producer", "Professor", "Republic", "Secretary", "Security",
     "Transparency", "Treasury", "Alamy", "Getty", "Shutterstock"}

\* The older length rule: all-capitals with 2+ characters, mixed case 3+.
meetsMinLength_TwoLetters(phrase) ==
    IF Includes(phrase, " ") THEN TRUE
    ELSE IF phrase # "" /\ CharsOf(phrase) \subseteq Upper THEN Len(phrase) >= 2
    ELSE Len(phrase) >= 3

\* Single-word candidates: all-capitals need 3+ characters, mixed case 4+.
\* Phrases with a space always pass.
meetsMinLength(phrase) ==
    IF Includes(phrase, " ") THEN TRUE
    ELSE IF phrase # "" /\ CharsOf(phrase) \subseteq Upper THEN Len(phrase) >= 3
    ELSE Len(phrase) >= 4

\* (?:of|and|in|on|under|the|for)
FILLERS == {"of", "and", "in", "on", "under", "the", "for"}

\* FILLER_LEADING = /^(?:of|and|in|on|under|the|for)\s+/i : the end of the
\* match at the start of the phrase, or -1.
FillerLeadingEnd(phrase) ==
    LET fs == { f \in FILLERS :
                  /\ Len(f) < Len(phrase)
                  /\ toLowerCase(Slice(phrase, 0, Len(f))) = f
                  /\ At(phrase, Len(f)) \in Space }
    IN  IF fs = {} THEN -1
        ELSE RunEnd(phrase, Len(CHOOSE f \in fs : TRUE), Space)

\* Start of the white-space run that ends at position e (exclusive).
RECURSIVE RunStart(_, _, _)
RunStart(t, e, S) ==
    IF e > 0 /\ At(t, e - 1) \in S THEN RunStart(t, e - 1, S) ELSE e

\* FILLER_TRAILING = /\s+(?:of|and|in|on|under|the|for)$/i : the start of the
\* (leftmost) match, or -1.
FillerTrailingStart(phrase) ==
    LET n == Len(phrase)
        fs == { f \in FILLERS :
                  /\ Len(f) < n
                  /\ toLowerCase(Slice(phrase, n - Len(f), n)) = f
                  /\ At(phrase, n - Len(f) - 1) \in Space }
    IN  IF fs = {} THEN -1
        ELSE RunStart(phrase, n - Len(CHOOSE f \in fs : TRUE), Space)

RECURSIVE TrimLeading(_)
TrimLeading(phrase) ==
    IF FillerLeadingEnd(phrase) = -1 THEN phrase
    ELSE TrimLeading(Slice(phrase, FillerLeadingEnd(phrase), Len(phrase)))

RECURSIVE TrimTrailing(_)
TrimTrailing(phrase) ==
    IF FillerTrailingStart(phrase) = -1 THEN phrase
    ELSE TrimTrailing(Slice(phrase, 0, FillerTrailingStart(phrase)))

trimFillers(phrase) == TrimTrailing(TrimLeading(phrase))

\* text.replace(/[‘’]/g, "'")
RECURSIVE normaliseCurlyQuotes(_)
normaliseCurlyQuotes(t) ==
    IF Len(t) <= 1 THEN (IF t \in {RSQUO, LSQUO} THEN "'" ELSE t)
    ELSE normaliseCurlyQuotes(Slice(t, 0, Len(t) \div 2))
         \o normaliseCurlyQuotes(Slice(t, Len(t) \div 2, Len(t)))

\* capsWord = [A-Z][a-zA-Z'\-]+ starting at p and followed by \b: the end of
\* the match the backtracking engine settles on (the longest run of tail
\* characters that ends at a word boundary), or -1.
CapsWordEnd(t, p) ==
    IF p < Len(t) /\ At(t, p) \in Upper
    THEN LET m == RunEnd(t, p + 1, CapsTail)
             ends == { e \in (p + 2)..m : WordBoundary(t, e) }
         IN  IF ends = {} THEN -1 ELSE Max(ends)
    ELSE -1

\* capsWord starting at p and followed by white space (every capsWord of a
\* phrase but the last): only the whole run of tail characters can be
\* followed by \s, so the end is the end of the run, or -1.
CapsWordRun(t, p) ==
    IF p < Len(t) /\ At(t, p) \in Upper /\ RunEnd(t, p + 1, CapsTail) > p + 1
    THEN RunEnd(t, p + 1, CapsTail)
    ELSE -1

\* One filler word at q: its end, or -1.  No filler is a prefix of another,
\* so at most one alternative matches.
FillerEnd(t, q) ==
    LET fs == { f \in FILLERS : q + Len(f) <= Len(t) /\ Slice(t, q, q + Len(f)) = f }
    IN  IF fs = {} THEN -1 ELSE q + Len(CHOOSE f \in fs : TRUE)

\* A greedy pattern that bridges no filler: (?:\s+capsWord)+ then \b.
RECURSIVE GreedyTail_CapsOnly(_, _)
GreedyTail_CapsOnly(t, q) ==
    LET w == RunEnd(t, q, Space)
        c == CapsWordRun(t, w)
        more == IF c = -1 THEN -1 ELSE GreedyTail_CapsOnly(t, c)
    IN  IF w = q THEN -1
        ELSE IF more # -1 THEN more
        ELSE CapsWordEnd(t, w)

\* The rest of the greedy pattern after a capsWord that ended at q:
\*   (?:\s+(?:filler|capsWord))*\s+capsWord  then \b
\* tried in the engine's order: one more iteration of the star first (filler
\* before capsWord), the closing \s+capsWord\b last.  The end, or -1.
RECURSIVE GreedyTail(_, _)
GreedyTail(t, q) ==
    LET w == RunEnd(t, q, Space)
        f == FillerEnd(t, w)
        viaFiller == IF f = -1 THEN -1 ELSE GreedyTail(t, f)
        c == CapsWordRun(t, w)
        viaCaps == IF c = -1 THEN -1 ELSE GreedyTail(t, c)
    IN  IF w = q THEN -1
        ELSE IF viaFiller # -1 THEN viaFiller
        ELSE IF viaCaps # -1 THEN viaCaps
        ELSE CapsWordEnd(t, w)

\* The rest of the frugal pattern after a capsWord that ended at q:
\*   (?:\s+capsWord)+  then \b
RECURSIVE FrugalTail(_, _)
FrugalTail(t, q) ==
    LET w == RunEnd(t, q, Space)
        c == CapsWordRun(t, w)
        more == IF c = -1 THEN -1 ELSE FrugalTail(t, c)
    IN  IF w = q THEN -1
        ELSE IF more # -1 THEN more
        ELSE CapsWordEnd(t, w)

\* The four patterns of extractCandidates, in the order of the array.
GREEDY == 1
FRUGAL == 2
SINGLE == 3
ACRONYM == 4

\* pattern.exec at exactly position p: the end of the match, or -1.
MatchEnd(pattern, t, p) ==
    IF ~(p < Len(t) /\ At(t, p) \in Upper /\ WordBoundary(t, p)) THEN -1
    ELSE IF pattern = GREEDY
         THEN (IF CapsWordRun(t, p) = -1 THEN -1 ELSE GreedyTail(t, CapsWordRun(t, p)))
    ELSE IF pattern = FRUGAL
         THEN (IF CapsWordRun(t, p) = -1 THEN -1 ELSE FrugalTail(t, CapsWordRun(t, p)))
    ELSE IF pattern = SINGLE THEN CapsWordEnd(t, p)
    ELSE \* /\b([A-Z]{2,6})\b/
         LET m == RunEnd(t, p, Upper)
         IN  IF m - p >= 2 /\ m - p <= 6 /\ WordBoundary(t, m) THEN m ELSE -1

\* text.matchAll(pattern): the matches <<start, end>> from position pos on,
\* leftmost first, each search resuming at the end of the previous match.
RECURSIVE MatchAll(_, _, _)
MatchAll(pattern, t, pos) ==
    LET starts == { p \in pos..(Len(t) - 1) : MatchEnd(pattern, t, p) # -1 }
    IN  IF starts = {} THEN <<>>
        ELSE CHOOSE ms \in { <<<<p, e>>>> \o MatchAll(pattern, t, e) :
                                p \in {Min(starts)},
                                e \in {MatchEnd(pattern, t, Min(starts))} } : TRUE

\* candidates.add(phrase): a JavaScript Set keeps insertion order.
SetAdd(set, x) == IF x \in Range(set) THEN set ELSE Append(set, x)

\* The body of the loop over one pattern's matches: add the phrase if it
\* passes the filter and, for the greedy pattern, its filler-trimmed form.
RECURSIVE AddMatches(_, _, _, _)
AddMatches(pattern, t, ms, cands) ==
    IF ms = <<>> THEN cands
    ELSE LET phrase == Slice(t, Head(ms)[1], Head(ms)[2])   \* match[1].trim()
             trimmed == trimFillers(phrase)
             c1 == IF meetsMinLength(phrase) /\ phrase \notin SKIP_WORDS
                   THEN SetAdd(cands, phrase) ELSE cands
             c2 == IF /\ meetsMinLength(phrase) /\ phrase \notin SKIP_WORDS
                      /\ pattern = GREEDY
                      /\ trimmed # phrase
                      /\ meetsMinLength(trimmed) /\ trimmed \notin SKIP_WORDS
                   THEN SetAdd(c1, trimmed) ELSE c1
         IN  CHOOSE r \in { AddMatches(pattern, t, rest, next) :
                                rest \in {Tail(ms)}, next \in {c2} } : TRUE

\* Extract capitalised phrase candidates from text: the Set, in insertion
\* order.
extractCandidates(t) ==
    LET Pass(pattern, cands) ==
            CHOOSE r \in { AddMatches(pattern, t, ms, c) :
                              ms \in {MatchAll(pattern, t, 0)}, c \in {cands} } : TRUE
    IN  Pass(ACRONYM, Pass(SINGLE, Pass(FRUGAL, Pass(GREEDY, <<>>))))

\* Only the start of the buffer counts as a sentence start.
isSentenceStart_BufferStartOnly(t, index) == index = 0

\* Check if a match position is at the start of a sentence.
isSentenceStart(t, index) ==
    IF index = 0 THEN TRUE
    ELSE LET i == RunStart(t, index, Space) - 1
         IN  IF i < 0 THEN TRUE ELSE At(t, i) \in SentenceEnd

\* textBefore.match(/[A-Z][a-zA-Z''\-]*$/): some suffix of s is a capital
\* followed by tail characters only.
EndsWithCapsWord(s) ==
    \E i \in 0..(Len(s) - 1) :
        At(s, i) \in Upper /\ RunEnd(s, i + 1, CapsTail) = Len(s)

\* Only the following word is inspected.
isPartOfLargerPhrase_AfterOnly(t, start, end) ==
    /\ end < Len(t)
    /\ At(t, end) = " "
    /\ end + 1 < Len(t)
    /\ At(t, end + 1) \in Upper

\* Check if matched text is part of a larger proper noun phrase.
isPartOfLargerPhrase(t, start, end) ==
    \/ /\ start > 0
       /\ At(t, start - 1) = " "
       /\ EndsWithCapsWord(Slice(t, 0, start - 1))
    \/ /\ end < Len(t)
       /\ At(t, end) = " "
       /\ end + 1 < Len(t)
       /\ At(t, end + 1) \in Upper

\* The same search without the two \b: the first occurrence, in a word or not.
ExecFrom_NoBoundary(t, name, from) ==
    LET n == Len(name)
        hits == { p \in from..(Len(t) - n) : Slice(t, p, p + n) = name }
    IN  IF hits = {} THEN -1 ELSE Min(hits)

\* The same search returning the last occurrence at or after from.
ExecFrom_LastOccurrence(t, name, from) ==
    LET n == Len(name)
        hits == { p \in from..(Len(t) - n) :
                    /\ Slice(t, p, p + n) = name
                    /\ WordBoundary(t, p)
                    /\ WordBoundary(t, p + n) }
    IN  IF hits = {} THEN -1 ELSE Max(hits)

\* new RegExp(`\\b${escapeRegExp(name)}\\b`).exec(t) with lastIndex = from:
\* the index of the first word-boundary occurrence at or after from, or -1.
\* (escapeRegExp makes the name match itself, character for character.)
ExecFrom(t, name, from) ==
    LET n == Len(name)
        hits == { p \in from..(Len(t) - n) :
                    /\ Slice(t, p, p + n) = name
                    /\ WordBoundary(t, p)
                    /\ WordBoundary(t, p + n) }
    IN  IF hits = {} THEN -1 ELSE Min(hits)

\* Only ranges that begin at the same position count as overlapping.
Overlaps_SameStartOnly(usedRanges, start, end) ==
    \E r \in usedRanges : start = r[1]

\* usedRanges.some(([s, e]) => ...)
Overlaps(usedRanges, start, end) ==
    \E r \in usedRanges :
        \/ (start >= r[1] /\ start < r[2])
        \/ (end > r[1] /\ end <= r[2])
        \/ (start <= r[1] /\ end >= r[2])

\* matches.sort((a, b) => b.text.length - a.text.length): a stable sort.
RECURSIVE InsertByLength(_, _)
InsertByLength(sorted, m) ==
    IF sorted = <<>> THEN <<m>>
    ELSE IF Len(Head(sorted).text) >= Len(m.text)
         THEN <<Head(sorted)>> \o InsertByLength(Tail(sorted), m)
         ELSE <<m>> \o sorted

\* The comparator reversed: (a, b) => a.text.length - b.text.length.
RECURSIVE SortByLengthDesc_Ascending(_)
SortByLengthDesc_Ascending(ms) ==
    IF ms = <<>> THEN <<>>
    ELSE LET i == CHOOSE k \in 1..Len(ms) :
                      \A j \in 1..Len(ms) :
                          \/ Len(ms[k].text) < Len(ms[j].text)
                          \/ Len(ms[k].text) = Len(ms[j].text) /\ k <= j
         IN  <<ms[i]>> \o SortByLengthDesc_Ascending(
                 SubSeq(ms, 1, i - 1) \o SubSeq(ms, i + 1, Len(ms)))

RECURSIVE SortByLengthDesc(_)
SortByLengthDesc(ms) ==
    IF ms = <<>> THEN <<>>
    ELSE InsertByLength(SortByLengthDesc(SubSeq(ms, 1, Len(ms) - 1)), ms[Len(ms)])

\* result.sort((a, b) => a.index - b.index): a stable sort.
RECURSIVE InsertByIndex(_, _)
InsertByIndex(sorted, m) ==
    IF sorted = <<>> THEN <<m>>
    ELSE IF Head(sorted).index <= m.index
         THEN <<Head(sorted)>> \o InsertByIndex(Tail(sorted), m)
         ELSE <<m>> \o sorted

RECURSIVE SortByIndex(_)
SortByIndex(ms) ==
    IF ms = <<>> THEN <<>>
    ELSE InsertByIndex(SortByIndex(SubSeq(ms, 1, Len(ms) - 1)), ms[Len(ms)])

\* for (const candidate of candidates) if (entitySet.has(candidate)) ...
RECURSIVE Confirmed(_, _)
Confirmed(cands, entities) ==
    IF cands = <<>> THEN <<>>
    ELSE (IF Head(cands) \in entities THEN <<[text |-> Head(cands)]>> ELSE <<>>)
         \o Confirmed(Tail(cands), entities)

\* The loop of findMatches over the sorted matches: each phrase is looked up
\* at its first word-boundary occurrence and accepted unless it overlaps an
\* accepted range, is part of a larger phrase or starts a sentence.
RECURSIVE Resolve(_, _, _, _)
Resolve(t, ms, result, usedRanges) ==
    IF ms = <<>> THEN result
    ELSE LET name == Head(ms).text
             start == ExecFrom(t, name, 0)
             end == start + Len(name)
             accept == /\ start # -1
                       /\ ~Overlaps(usedRanges, start, end)
                       /\ ~isPartOfLargerPhrase(t, start, end)
                       /\ ~isSentenceStart(t, start)
         IN  IF accept
             THEN Resolve(t, Tail(ms), Append(result, [text |-> name, index |-> start]),
                          usedRanges \cup {<<start, end>>})
             ELSE Resolve(t, Tail(ms), result, usedRanges)

\* Find entity matches in text using full candidate extraction.
findMatches(t, entities) ==
    LET Accepted(normalised) ==
            Resolve(normalised,
                    SortByLengthDesc(Confirmed(extractCandidates(normalised), entities)),
                    <<>>, {})
    IN  CHOOSE r \in { SortByIndex(result) :
                          result \in { Accepted(normalised) :
                                         normalised \in {normaliseCurlyQuotes(t)} } } : TRUE

\* while ((found = regex.exec(text)) !== null) matches.push(...): every
\* occurrence of one name, each search resuming at the end of the last.
RECURSIVE Occurrences(_, _, _)
Occurrences(t, name, from) ==
    LET p == ExecFrom(t, name, from)
    IN  IF p = -1 THEN <<>>
        ELSE <<[text |-> name, index |-> p]>> \o Occurrences(t, name, p + Len(name))

RECURSIVE AllOccurrences(_, _)
AllOccurrences(t, names) ==
    IF names = <<>> THEN <<>>
    ELSE Occurrences(t, Head(names), 0) \o AllOccurrences(t, Tail(names))

\* The part-of-larger-phrase check is applied to the occurrences as well.
RECURSIVE ResolveInText_PartOfLargerToo(_, _, _, _)
ResolveInText_PartOfLargerToo(t, ms, result, usedRanges) ==
    IF ms = <<>> THEN result
    ELSE LET start == Head(ms).index
             end == start + Len(Head(ms).text)
         IN  IF /\ ~Overlaps(usedRanges, start, end)
                /\ ~isSentenceStart(t, start)
                /\ ~isPartOfLargerPhrase(t, start, end)
             THEN ResolveInText_PartOfLargerToo(t, Tail(ms), Append(result, Head(ms)),
                                               usedRanges \cup {<<start, end>>})
             ELSE ResolveInText_PartOfLargerToo(t, Tail(ms), result, usedRanges)

\* The loop of findMatchesInText over the sorted occurrences.
RECURSIVE ResolveInText(_, _, _, _)
ResolveInText(t, ms, result, usedRanges) ==
    IF ms = <<>> THEN result
    ELSE LET start == Head(ms).index
             end == start + Len(Head(ms).text)
         IN  IF ~Overlaps(usedRanges, start, end) /\ ~isSentenceStart(t, start)
             THEN ResolveInText(t, Tail(ms), Append(result, Head(ms)),
                                usedRanges \cup {<<start, end>>})
             ELSE ResolveInText(t, Tail(ms), result, usedRanges)

\* Find occurrences of pre-discovered entities in text.  knownEntities is
\* the Map's keys in insertion order.
findMatchesInText(t, knownEntities) ==
    SortByIndex(ResolveInText(t, SortByLengthDesc(AllOccurrences(t, knownEntities)),
                              <<>>, {}))

-----------------------------------------------------------------------------
(* server/lib/matcher.js: class EntityMatcher                              *)

\* Common words to skip.
EntityMatcher_SKIP_WORDS ==
    {"The", "This", "That", "There", "Their", "They", "What", "When",
     "Where", "Which", "Who", "Why", "How", "He", "She", "His", "Her",
     "Him", "Its", "We", "Our", "You", "Your", "My", "Monday", "Tuesday",
     "Wednesday", "Thursday", "Friday", "Saturday", "Sunday", "January",
     "February", "March", "April", "May", "June", "July", "August",
     "September", "October", "November", "December"}

\* All-capitals single words need 2+ characters here, mixed case 4+.
EntityMatcher_meetsMinLength(phrase) ==
    IF Includes(phrase, " ") THEN TRUE
    ELSE IF phrase # "" /\ CharsOf(phrase) \subseteq Upper THEN Len(phrase) >= 2
    ELSE Len(phrase) >= 4

RECURSIVE EntityMatcher_AddMatches(_, _, _, _)
EntityMatcher_AddMatches(pattern, t, ms, cands) ==
    IF ms = <<>> THEN cands
    ELSE LET phrase == Slice(t, Head(ms)[1], Head(ms)[2])
             trimmed == trimFillers(phrase)
             ok == EntityMatcher_meetsMinLength(phrase)
                   /\ phrase \notin EntityMatcher_SKIP_WORDS
             c1 == IF ok THEN SetAdd(cands, phrase) ELSE cands
             c2 == IF /\ ok
                      /\ pattern = GREEDY
                      /\ trimmed # phrase
                      /\ EntityMatcher_meetsMinLength(trimmed)
                      /\ trimmed \notin EntityMatcher_SKIP_WORDS
                   THEN SetAdd(c1, trimmed) ELSE c1
         IN  CHOOSE r \in { EntityMatcher_AddMatches(pattern, t, rest, next) :
                                rest \in {Tail(ms)}, next \in {c2} } : TRUE

\* EntityMatcher.extractCandidates: the same four patterns.
EntityMatcher_extractCandidates(t) ==
    LET Pass(pattern, cands) ==
            CHOOSE r \in { EntityMatcher_AddMatches(pattern, t, ms, c) :
                              ms \in {MatchAll(pattern, t, 0)}, c \in {cands} } : TRUE
    IN  Pass(ACRONYM, Pass(SINGLE, Pass(FRUGAL, Pass(GREEDY, <<>>))))

\* for (const candidate of candidates) ... else debugData.unmatched.push
RECURSIVE Unmatched(_, _)
Unmatched(cands, entities) ==
    IF cands = <<>> THEN <<>>
    ELSE (IF Head(cands) \in entities THEN <<>> ELSE <<Head(cands)>>)
         \o Unmatched(Tail(cands), entities)

\* The loop of EntityMatcher.findMatches over the sorted matches.  acc holds
\* result and usedRanges and the three rejection lists of debugData.
RECURSIVE EntityMatcher_Resolve(_, _, _)
EntityMatcher_Resolve(t, ms, acc) ==
    IF ms = <<>> THEN acc
    ELSE LET name == Head(ms).text
             start == ExecFrom(t, name, 0)
             end == start + Len(name)
             next ==
                 IF start = -1 THEN acc
                 ELSE IF Overlaps(acc.usedRanges, start, end)
                      THEN [acc EXCEPT !.overlapped = Append(@, [text |-> name])]
                 ELSE IF isPartOfLargerPhrase(t, start, end)
                      THEN [acc EXCEPT !.partOfLarger = Append(@, [text |-> name])]
                 ELSE IF isSentenceStart(t, start)
                      THEN [acc EXCEPT !.sentenceStart = Append(@, [text |-> name])]
                 ELSE [acc EXCEPT !.result = Append(@, [text |-> name, index |-> start]),
                                  !.usedRanges = @ \cup {<<start, end>>}]
         IN  EntityMatcher_Resolve(t, Tail(ms), next)

\* With debug on, the array is returned in the order of acceptance (longest
\* first) and not sorted by index.
EntityMatcher_findMatches_DebugUnsorted(entities, t, debug) ==
    CHOOSE r \in
        { [result |-> IF debug THEN acc.result ELSE SortByIndex(acc.result),
           debug |-> IF debug
                      THEN [candidates |-> cands,
                            unmatched |-> Unmatched(cands, entities),
                            overlapped |-> acc.overlapped,
                            partOfLarger |-> acc.partOfLarger,
                            sentenceStart |-> acc.sentenceStart]
                      ELSE NULL] :
            cands \in {EntityMatcher_extractCandidates(t)},
            acc \in {EntityMatcher_Resolve(t,
                         SortByLengthDesc(Confirmed(EntityMatcher_extractCandidates(t),
                                                    entities)),
                         [result |-> <<>>, usedRanges |-> {}, overlapped |-> <<>>,
                          partOfLarger |-> <<>>, sentenceStart |-> <<>>])} } : TRUE

\* EntityMatcher.findMatches(text, debug): the array, and its _debug
\* property (NULL when debug is off).
EntityMatcher_findMatches(entities, t, debug) ==
    LET Matched(cands) ==
            EntityMatcher_Resolve(t, SortByLengthDesc(Confirmed(cands, entities)),
                [result |-> <<>>, usedRanges |-> {}, overlapped |-> <<>>,
                 partOfLarger |-> <<>>, sentenceStart |-> <<>>])
        Returned(cands, acc) ==
            [result |-> SortByIndex(acc.result),
             debug |-> IF debug
                        THEN [candidates |-> cands,
                              unmatched |-> Unmatched(cands, entities),
                              overlapped |-> acc.overlapped,
                              partOfLarger |-> acc.partOfLarger,
                              sentenceStart |-> acc.sentenceStart]
                        ELSE NULL]
    IN  CHOOSE r \in { Returned(cands, acc) :
                          cands \in {EntityMatcher_extractCandidates(t)},
                          acc \in {Matched(EntityMatcher_extractCandidates(t))} } : TRUE

EntityMatcher_findMatchesInText(t, knownEntities) ==
    SortByIndex(ResolveInText(t, SortByLengthDesc(AllOccurrences(t, knownEntities)),
                              <<>>, {}))

-----------------------------------------------------------------------------
(* server/shared/skip-rules.js.  An element is a record; isNull stands for *)
(* null or undefined, and tagName is a string, UNDEFINED when the element  *)
(* has none, or THROWS when reading it throws.  A callback is given by     *)
(* what it does for that element: closestFn maps each selector to "true",  *)
(* "false" or THROWS; getClassFn is [kind, value] with kind "none" (no     *)
(* callback supplied), "string", "object" (a truthy non-string) or THROWS. *)

UNDEFINED == "undefined"
THROWS == "throws"

UpperOf(c) ==
    IF c \in Lower
    THEN At(UPPER_CHARS, CHOOSE i \in 0..25 : At(LOWER_CHARS, i) = c)
    ELSE c

RECURSIVE toUpperCase(_)
toUpperCase(s) ==
    IF Len(s) <= 1 THEN UpperOf(s)
    ELSE toUpperCase(Slice(s, 0, Len(s) \div 2))
         \o toUpperCase(Slice(s, Len(s) \div 2, Len(s)))

SKIP_TAGS ==
    {"SCRIPT", "STYLE", "NOSCRIPT", "A", "BUTTON", "INPUT", "TEXTAREA",
     "SELECT", "LABEL", "NAV", "HEADER", "FOOTER", "ASIDE", "H1", "H2",
     "H3", "H4", "H5", "H6", "CODE", "PRE", "KBD", "SAMP", "SVG", "MATH",
     "IFRAME", "OBJECT", "EMBED", "CANVAS", "HEAD", "TITLE", "META",
     "LINK", "FIGCAPTION", "LI", "TH", "TD"}

SKIP_SELECTORS ==
    <<"[role=\"navigation\"]", "[role=\"banner\"]", "[role=\"contentinfo\"]",
      "[role=\"complementary\"]", "[role=\"search\"]", "[role=\"menu\"]",
      "[role=\"menubar\"]", "[role=\"toolbar\"]", "[role=\"button\"]",
      "[aria-hidden=\"true\"]", "[data-component=\"nav\"]",
      "[data-component=\"navigation\"]", "[data-component=\"header\"]",
      "[data-testid=\"promo\"]", "[data-testid=\"card\"]", "[data-commerce]",
      "[data-affiliate]">>

SKIP_CLASS_PATTERNS ==
    {"menu", "nav-", "-nav", "headline", "title", "heading", "teaser",
     "dek", "lede", "leadin", "lead-in", "standfirst", "summary",
     "excerpt", "card", "promo", "tout", "featured", "spotlight",
     "credit", "caption", "byline", "author", "source", "widget", "embed",
     "video-", "-video", "interactive", "item-info", "item-image",
     "list-item", "rail", "sidebar", "related", "intro", "outro",
     "g-intro", "g-leadin", "commerce", "shopping", "buyline",
     "affiliate", "product", "speakable", "schema", "ld-json"}

\* The class value makes hasSkipClassPattern throw: the callback throws, or
\* returns a truthy value that has no toLowerCase.
ClassThrows(getClassFn) == getClassFn.kind \in {THROWS, "object"}

\* The same check on the class as written, upper case kept.
hasSkipClassPattern_CaseSensitive(getClassFn) ==
    /\ getClassFn.value # ""
    /\ \E pattern \in SKIP_CLASS_PATTERNS : Includes(getClassFn.value, pattern)

\* Check if element has a class matching skip patterns.
hasSkipClassPattern(getClassFn) ==
    /\ getClassFn.value # ""
    /\ \E pattern \in SKIP_CLASS_PATTERNS :
           Includes(toLowerCase(getClassFn.value), pattern)

\* for (const selector of SKIP_SELECTORS) if (closestFn(element, selector)):
\* the outcome of the first selector, from k on, that is not "false".
RECURSIVE SelectorScan(_, _)
SelectorScan(closestFn, k) ==
    IF k > Len(SKIP_SELECTORS) THEN "false"
    ELSE IF closestFn[SKIP_SELECTORS[k]] = "false" THEN SelectorScan(closestFn, k + 1)
    ELSE closestFn[SKIP_SELECTORS[k]]

\* Determine if an element should be skipped for wikilink injection.
shouldSkipElement(element, closestFn, getClassFn) ==
    LET tagName == IF element.isNull \/ element.tagName = UNDEFINED
                   THEN UNDEFINED
                   ELSE toUpperCase(element.tagName)
        scan == SelectorScan(closestFn, 1)
    IN  IF ~element.isNull /\ element.tagName = THROWS THEN TRUE       \* catch
        ELSE IF tagName \notin {UNDEFINED, ""} /\ tagName \in SKIP_TAGS THEN TRUE
        ELSE IF scan = THROWS THEN TRUE                                 \* catch
        ELSE IF scan = "true" THEN TRUE
        ELSE IF getClassFn.kind = "none" THEN FALSE
        ELSE IF ClassThrows(getClassFn) THEN TRUE                       \* catch
        ELSE hasSkipClassPattern(getClassFn)

-----------------------------------------------------------------------------
(* The page.  Its shape is fixed: four elements and three text slots.  A   *)
(* slot holds what stands where one text node stood when the page was      *)
(* loaded: on the server the node's rawText (a string), in the browser the *)
(* nodes that replaced it (text nodes and the links made from it).         *)

Elements == {"e1", "e2", "e3", "e4"}
Leaves == {"t1", "t2", "t3"}

ChildNodes == [e \in Elements |->
    CASE e = "e1" -> <<"e2">>
      [] e = "e2" -> <<"t1", "e3", "e4">>
      [] e = "e3" -> <<"t2">>
      [] e = "e4" -> <<"t3">>]

IsChild(c, e) == \E k \in 1..Len(ChildNodes[e]) : ChildNodes[e][k] = c

\* The elements that contain node n, nearest first or not: as a set.
RECURSIVE Ancestors(_)
Ancestors(n) ==
    LET parents == { e \in Elements : IsChild(n, e) }
    IN  parents \cup UNION { Ancestors(p) : p \in parents }

\* text.trim()
Trim(s) ==
    LET a == RunEnd(s, 0, Space)
    IN  IF a = Len(s) THEN "" ELSE Slice(s, a, RunStart(s, Len(s), Space))

\* s.split(/\s+/) of a trimmed string.
RECURSIVE SplitSpace(_)
SplitSpace(s) ==
    LET gaps == { p \in 0..(Len(s) - 1) : At(s, p) \in Space }
    IN  IF gaps = {} THEN <<s>>
        ELSE <<Slice(s, 0, Min(gaps))>>
             \o SplitSpace(Slice(s, RunEnd(s, Min(gaps), Space), Len(s)))

\* words.join(' ')
RECURSIVE Join(_)
Join(words) ==
    IF words = <<>> THEN ""
    ELSE IF Len(words) = 1 THEN words[1]
    ELSE words[1] \o " " \o Join(Tail(words))

\* Extract context around a match: 3 words either side.
extractContext(t, index, matchLength) ==
    LET before == SplitSpace(Trim(Slice(t, 0, index)))
        after == SplitSpace(Trim(Slice(t, index + matchLength, Len(t))))
        wordsBefore == Join(SubSeq(before, Max({1, Len(before) - 2}), Len(before)))
        wordsAfter == Join(SubSeq(after, 1, Min({3, Len(after)})))
    IN  Trim(wordsBefore \o " [" \o Slice(t, index, index + matchLength) \o "] "
             \o wordsAfter)

\* encodeURIComponent on one character (the characters that occur here).
EncodeChar(c) ==
    CASE c = " " -> "%20"
      [] c = "\"" -> "%22"
      [] c = "&" -> "%26"
      [] c = "<" -> "%3C"
      [] c = ">" -> "%3E"
      [] c = "," -> "%2C"
      [] c = "/" -> "%2F"
      [] c = RSQUO -> "%E2%80%99"
      [] c = LSQUO -> "%E2%80%98"
      [] OTHER -> c

\* Generate Wikipedia URL from entity name.
RECURSIVE EncodeName(_)
EncodeName(s) ==
    IF Len(s) <= 1 THEN (IF s = " " THEN "_" ELSE EncodeChar(s))
    ELSE EncodeName(Slice(s, 0, Len(s) \div 2))
         \o EncodeName(Slice(s, Len(s) \div 2, Len(s)))

toWikiUrl(entityName) == "https://en.wikipedia.org/wiki/" \o EncodeName(entityName)

RECURSIVE escapeHtml(_)
escapeHtml(s) ==
    IF Len(s) <= 1
    THEN (CASE s = "&" -> "&amp;"
            [] s = "<" -> "&lt;"
            [] s = ">" -> "&gt;"
            [] s = "\"" -> "&quot;"
            [] OTHER -> s)
    ELSE escapeHtml(Slice(s, 0, Len(s) \div 2))
         \o escapeHtml(Slice(s, Len(s) \div 2, Len(s)))

-----------------------------------------------------------------------------
(* lib/injector.js: the server's walk.  page maps each element to a record *)
(* [isNull, tagName, attrs, class]; attrs is the set of skip selectors the *)
(* element itself matches.                                                 *)

\* Adapter for node-html-parser's closest() method: the element or one of
\* its ancestors matches the selector.
closestAdapter(pg, element, selector) ==
    IF \E a \in {element} \cup Ancestors(element) : selector \in pg[a].attrs
    THEN "true" ELSE "false"

\* Adapter for getting class attribute.
getClassAdapter(pg, element) == [kind |-> "string", value |-> pg[element].class]

\* Tags that are skipped globally but allowed inside the article container.
ALLOW_INSIDE_ARTICLE == {"LI", "TH", "TD"}

\* processElement returns before it looks at the children: the skip rules
\* (never asked about the root, nor about LI/TH/TD inside the article), or
\* an element that is already a wikilink.
processElement_Returns(pg, element, isRoot, insideArticle) ==
    \/ /\ ~isRoot
       /\ ~(insideArticle /\ toUpperCase(pg[element].tagName) \in ALLOW_INSIDE_ARTICLE)
       /\ shouldSkipElement(pg[element],
              [s \in Range(SKIP_SELECTORS) |-> closestAdapter(pg, element, s)],
              getClassAdapter(pg, element))
    \/ Includes(pg[element].class, "wikilink")

\* The ledger is not consulted: every match is wrapped.
RECURSIVE SpliceLinks_NoLedgerCheck(_, _, _)
SpliceLinks_NoLedgerCheck(t, ms, acc) ==
    IF ms = <<>> THEN acc
    ELSE LET match == Head(ms)
             wikiUrl == toWikiUrl(match.text)
             before == IF match.index > acc.lastIndex
                       THEN escapeHtml(Slice(t, acc.lastIndex, match.index))
                       ELSE ""
         IN  SpliceLinks_NoLedgerCheck(t, Tail(ms),
                 [acc EXCEPT
                    !.newHtml = @ \o before \o "<a href=\"" \o wikiUrl
                                  \o "\" class=\"wikilink\" title=\"" \o match.text
                                  \o "\">" \o escapeHtml(match.text) \o "</a>",
                    !.lastIndex = match.index + Len(match.text),
                    !.linkedEntities = @ \cup {match.text},
                    !.matchLog = Append(@, [text |-> match.text, wikiUrl |-> wikiUrl,
                                            context |-> extractContext(t, match.index,
                                                                       Len(match.text))]),
                    !.matched = IF acc.debug THEN Append(@, [text |-> match.text]) ELSE @])

\* for (const match of matches): build the replacement HTML of one text
\* node.  acc carries newHtml, lastIndex, the ledger, the match log and the
\* two lists of debugInfo that the loop appends to.
RECURSIVE SpliceLinks(_, _, _)
SpliceLinks(t, ms, acc) ==
    IF ms = <<>> THEN acc
    ELSE LET match == Head(ms)
             wikiUrl == toWikiUrl(match.text)
             before == IF match.index > acc.lastIndex
                       THEN escapeHtml(Slice(t, acc.lastIndex, match.index))
                       ELSE ""
         IN  IF match.text \in acc.linkedEntities
             THEN SpliceLinks(t, Tail(ms),
                      [acc EXCEPT !.skippedAlreadyLinked =
                           IF acc.debug THEN Append(@, [text |-> match.text]) ELSE @])
             ELSE SpliceLinks(t, Tail(ms),
                      [acc EXCEPT
                         !.newHtml = @ \o before \o "<a href=\"" \o wikiUrl
                                       \o "\" class=\"wikilink\" title=\"" \o match.text
                                       \o "\">" \o escapeHtml(match.text) \o "</a>",
                         !.lastIndex = match.index + Len(match.text),
                         !.linkedEntities = @ \cup {match.text},
                         !.matchLog = Append(@, [text |-> match.text, wikiUrl |-> wikiUrl,
                                                 context |-> extractContext(t, match.index,
                                                                            Len(match.text))]),
                         !.matched = IF acc.debug THEN Append(@, [text |-> match.text]) ELSE @])

\* The new rawText of a text node: the replacement HTML with the remaining
\* text added, written back only when it differs from the escaped text.
Rewritten(t, acc) ==
    LET newHtml == acc.newHtml \o (IF acc.lastIndex < Len(t)
                                   THEN escapeHtml(Slice(t, acc.lastIndex, Len(t)))
                                   ELSE "")
    IN  IF newHtml # escapeHtml(t) THEN newHtml ELSE t

\* [...new Set(list)]: the list without repeats, in first-seen order.
RECURSIVE Dedup(_)
Dedup(list) ==
    IF list = <<>> THEN <<>>
    ELSE LET rest == Dedup(SubSeq(list, 1, Len(list) - 1))
         IN  IF list[Len(list)] \in Range(rest) THEN rest
             ELSE Append(rest, list[Len(list)])

-----------------------------------------------------------------------------
(* extension/src/content.js: the browser's walk.                           *)

\* (el, sel) => !!el.closest?.(sel)
content_closest(pg, element, selector) ==
    IF \E a \in {element} \cup Ancestors(element) : selector \in pg[a].attrs
    THEN "true" ELSE "false"

\* (el) => el.className || ''
content_className(pg, element) == [kind |-> "string", value |-> pg[element].class]

\* Tags allowed inside article containers (content, not nav).
content_ALLOW_INSIDE_ARTICLE == {"LI", "TH", "TD"}

\* walkAndProcess returns 0 before it looks at the children.
walkAndProcess_Returns(pg, element, isRoot) ==
    \/ /\ ~isRoot
       /\ ~(toUpperCase(pg[element].tagName) \in content_ALLOW_INSIDE_ARTICLE)
       /\ shouldSkipElement(pg[element],
              [s \in Range(SKIP_SELECTORS) |-> content_closest(pg, element, s)],
              content_className(pg, element))
    \/ "wikilink" \in Range(SplitSpace(Trim(pg[element].class)))

TextNode(t) == [type |-> "text", text |-> t]

\* createWikiLink(entityName); the dash of the title stands for U+2014.
createWikiLink(entityName) ==
    [type |-> "a", href |-> toWikiUrl(entityName), className |-> "wikilink",
     title |-> entityName \o " - Wikipedia", text |-> entityName]

\* for (const match of matches) in replaceTextNode: acc carries the
\* fragment, lastIndex, count and the ledger.
RECURSIVE BuildFragment(_, _, _)
BuildFragment(t, ms, acc) ==
    IF ms = <<>> THEN acc
    ELSE LET match == Head(ms)
             before == IF match.index > acc.lastIndex
                       THEN <<TextNode(Slice(t, acc.lastIndex, match.index))>>
                       ELSE <<>>
         IN  IF match.text \in acc.linkedEntities
             THEN BuildFragment(t, Tail(ms), acc)
             ELSE BuildFragment(t, Tail(ms),
                      [fragment |-> acc.fragment \o before \o <<createWikiLink(match.text)>>,
                       lastIndex |-> match.index + Len(match.text),
                       count |-> acc.count + 1,
                       linkedEntities |-> acc.linkedEntities \cup {match.text}])

\* The same function counting the matches it was given, linked or not.
replaceTextNode_CountsMatches(t, ms, ledger) ==
    LET acc == BuildFragment(t, ms, [fragment |-> <<>>, lastIndex |-> 0, count |-> 0,
                                     linkedEntities |-> ledger])
    IN  IF acc.count = 0
        THEN [nodes |-> <<TextNode(t)>>, count |-> Len(ms), linkedEntities |-> ledger]
        ELSE [nodes |-> acc.fragment \o (IF acc.lastIndex < Len(t)
                                         THEN <<TextNode(Slice(t, acc.lastIndex, Len(t)))>>
                                         ELSE <<>>),
              count |-> Len(ms),
              linkedEntities |-> acc.linkedEntities]

\* replaceTextNode(textNode, text, matches, linkedEntities): the nodes that
\* stand in the text node's place afterwards, the count and the ledger.
replaceTextNode(t, ms, ledger) ==
    LET acc == BuildFragment(t, ms, [fragment |-> <<>>, lastIndex |-> 0, count |-> 0,
                                     linkedEntities |-> ledger])
    IN  IF acc.count = 0
        THEN [nodes |-> <<TextNode(t)>>, count |-> 0, linkedEntities |-> ledger]
        ELSE [nodes |-> acc.fragment \o (IF acc.lastIndex < Len(t)
                                         THEN <<TextNode(Slice(t, acc.lastIndex, Len(t)))>>
                                         ELSE <<>>),
              count |-> acc.count,
              linkedEntities |-> acc.linkedEntities]

\* One node of the snapshot of children: a text node is matched and
\* replaced; a link made earlier is an A element, which the skip rules turn
\* away.  acc carries the nodes, count, ledger and the matches of the last
\* text node.
WalkNode(node, entities, acc) ==
    IF node.type # "text" \/ Len(Trim(node.text)) < 3
    THEN [acc EXCEPT !.nodes = Append(@, node)]
    ELSE CHOOSE next \in UNION
             { { [nodes |-> acc.nodes \o r.nodes,
                  count |-> acc.count + r.count,
                  linkedEntities |-> r.linkedEntities,
                  matches |-> ms] :
                     r \in {replaceTextNode(node.text, ms, acc.linkedEntities)} } :
                 ms \in {findMatches(node.text, entities)} } : TRUE

\* The loop of walkAndProcess over the nodes of one slot.
RECURSIVE WalkSlot(_, _, _)
WalkSlot(nodes, entities, acc) ==
    IF nodes = <<>> THEN acc
    ELSE WalkSlot(Tail(nodes), entities, WalkNode(Head(nodes), entities, acc))

-----------------------------------------------------------------------------
(* The classifier harness: shouldSkipElement called once on an element and *)
(* two callbacks.                                                          *)

SkipElements ==
    {[isNull |-> TRUE, tagName |-> UNDEFINED]}
    \cup {[isNull |-> FALSE, tagName |-> t] :
             t \in {UNDEFINED, THROWS, "", "NAV", "nav", "A", "LI", "P", "DIV"}}

SampleSelectors == {"[role=\"navigation\"]", "[aria-hidden=\"true\"]", "[data-affiliate]"}

ClosestFns ==
    {[s \in Range(SKIP_SELECTORS) |-> "false"]}
    \cup {[s \in Range(SKIP_SELECTORS) |-> IF s = x THEN o ELSE "false"] :
             x \in SampleSelectors, o \in {"true", THROWS}}

GetClassFns ==
    {[kind |-> "none", value |-> ""], [kind |-> THROWS, value |-> ""],
     [kind |-> "object", value |-> ""]}
    \cup {[kind |-> "string", value |-> c] :
             c \in {"", "article-body", "Sidebar-Promo", "main-nav"}}

IdleSkip ==
    /\ skElement = [isNull |-> TRUE, tagName |-> UNDEFINED]
    /\ skClosestFn = [s \in Range(SKIP_SELECTORS) |-> "false"]
    /\ skGetClassFn = [kind |-> "none", value |-> ""]
    /\ skpc = "idle"
    /\ skResult = FALSE

IdleMatcher ==
    /\ text = ""
    /\ mpc = "idle"
    /\ candidates = <<>>
    /\ matches = <<>>
    /\ serverMatches = NULL
    /\ inTextMatches = <<>>

IdleServer ==
    /\ extractor = [kind |-> "none", textContent |-> ""]
    /\ readability = [isReaderable |-> FALSE, textContent |-> "", threw |-> FALSE]
    /\ isIndex = FALSE
    /\ spc = "idle"

IdlePages ==
    /\ queue = <<>>
    /\ calls = 0
    /\ firstResult = [recorded |-> FALSE]

IdleFetch ==
    /\ fetchUrl = ""
    /\ allowedDomains = [given |-> FALSE, domains |-> <<>>]
    /\ responses = <<>>
    /\ currentUrl = ""
    /\ redirects = 0
    /\ requested = <<>>
    /\ fetchResult = [kind |-> "none"]
    /\ fpc = "idle"

IdleContent ==
    /\ settings = [enabled |-> UNDEFINED]
    /\ initPc = "idle"
    /\ delivered = 0
    /\ entitySetNull = FALSE

IdleRace ==
    /\ cacheLoaded = TRUE
    /\ cacheDisk = <<>>
    /\ cacheInits = <<>>
    /\ cacheLive = {}

IdleCache ==
    /\ cacheIndex = <<>>
    /\ cacheFiles = {}
    /\ now = 0
    /\ cachePending = <<>>
    /\ cacheOp = [op |-> "none", key |-> "", size |-> 0, evicted |-> <<>>, hit |-> FALSE]

-----------------------------------------------------------------------------
(* The walk harness: one page, its selected roots and one call of          *)
(* injectWikilinks (server) or processPage (extension).                    *)

MaxMarked == 1

PlainElement == [isNull |-> FALSE, tagName |-> "DIV", attrs |-> {}, class |-> ""]

MarkedElements ==
    {[isNull |-> FALSE, tagName |-> "NAV", attrs |-> {}, class |-> ""],
     [isNull |-> FALSE, tagName |-> "A", attrs |-> {}, class |-> ""],
     [isNull |-> FALSE, tagName |-> "LI", attrs |-> {}, class |-> ""],
     [isNull |-> FALSE, tagName |-> "DIV", attrs |-> {"[role=\"navigation\"]"}, class |-> ""],
     [isNull |-> FALSE, tagName |-> "DIV", attrs |-> {}, class |-> "Article-Sidebar"],
     [isNull |-> FALSE, tagName |-> "A", attrs |-> {}, class |-> "wikilink"]}

Pages ==
    { p \in [Elements -> {PlainElement} \cup MarkedElements] :
        Cardinality({ e \in Elements : p[e] # PlainElement }) <= MaxMarked }

\* The elements the article selector picks, in document order.
RootChoices == {<<"e1">>, <<"e2">>, <<"e3", "e4">>, <<"e1", "e3">>}

LeafTexts ==
    {[l \in Leaves |-> CASE l = "t1" -> "in New York, so New York met Oslo."
                         [] l = "t2" -> "so Oslo met New York."
                         [] l = "t3" -> "so Oslo met New York."],
     [l \in Leaves |-> CASE l = "t1" -> "so Oslo met New York."
                         [] l = "t2" -> "in New York, so New York met Oslo."
                         [] l = "t3" -> " \n "],
     [l \in Leaves |-> CASE l = "t1" -> " \n "
                         [] l = "t2" -> "so Oslo met New York."
                         [] l = "t3" -> "in New York, so New York met Oslo."]}

WalkCatalogue == {"New York", "Oslo"}

\* What discoverEntities hands to the walk in the two-phase mode.
KnownEntities == <<"Oslo", "New York">>

EmptyDebugInfo ==
    [allCandidates |-> {}, matched |-> <<>>, skippedNoMatch |-> <<>>,
     skippedOverlap |-> <<>>, skippedPartOfLarger |-> <<>>,
     skippedSentenceStart |-> <<>>, skippedAlreadyLinked |-> <<>>]

NoResponse == [sent |-> FALSE]

IdleWalk ==
    /\ page = [e \in Elements |-> PlainElement]
    /\ leafText = [l \in Leaves |-> ""]
    /\ dom = [l \in Leaves |-> ""]
    /\ roots = <<>>
    /\ host = "none"
    /\ debugArg = FALSE
    /\ knownArg = [isNull |-> TRUE, names |-> <<>>]
    /\ wpc = "idle"
    /\ rootIdx = 0
    /\ stack = <<>>
    /\ linkedEntities = {}
    /\ debugInfo = EmptyDebugInfo
    /\ matchLog = <<>>
    /\ linkCount = 0
    /\ lastMatches = <<>>
    /\ response = NoResponse

InitSkip ==
    /\ skElement \in SkipElements
    /\ skClosestFn \in ClosestFns
    /\ skGetClassFn \in GetClassFns
    /\ skpc = "call"
    /\ skResult = FALSE
    /\ IdleMatcher
    /\ entitySet = {}
    /\ IdleWalk
    /\ IdleServer /\ IdlePages /\ IdleFetch /\ IdleCache
    /\ IdleContent /\ IdleRace

ShouldSkipElement ==
    /\ skpc = "call"
    /\ skResult' = shouldSkipElement(skElement, skClosestFn, skGetClassFn)
    /\ skpc' = "done"
    /\ UNCHANGED <<skElement, skClosestFn, skGetClassFn>>
    /\ UNCHANGED <<matcherVars, walkInput, walkState, restVars>>

NextSkip == ShouldSkipElement

-----------------------------------------------------------------------------
(* The matcher harness: one text buffer and one catalogue, handed to each  *)
(* of the matching functions in turn.                                      *)

MaxWords == 3

Words == {"he", "of", "York", "City"}
Seps == {" ", ". "}

RECURSIVE TextsOf(_)
TextsOf(n) ==
    IF n = 1 THEN Words
    ELSE { t \o s \o w : t \in TextsOf(n - 1), s \in Seps, w \in Words }

Texts == UNION { TextsOf(n) : n \in 1..MaxWords }

\* Titles that the generated texts can contain.
Titles == {"York City", "City of York", "York", "City"}

Catalogues == {Titles, {"York", "City"}}

\* Sentences and catalogues of the unit tests and of the documentation.
ExampleCases ==
    {<<"he flew to New York City last week.", {"New York", "New York City"}>>,
     <<"he flew to New York City today.", {"New York City", "City"}>>,
     <<"Google announced earnings. Barack Obama spoke.", {"Google", "Barack Obama"}>>,
     <<"Barack Obama spoke.", {"Barack Obama"}>>,
     <<"the UK and FBI worked with NATO.", {"UK", "US", "FBI", "NATO"}>>,
     <<"he Googled something", {"Google"}>>,
     <<"she read O^Neil today.", {"O'Neil"}>>,
     <<"he saw The Who live.", {"The Who", "Who"}>>,
     <<"he said In York today.", {"In York", "York"}>>,
     <<"she served as Secretary of State last year.", {"Secretary of State"}>>,
     <<"he left York City, then the City of York.", Titles>>,
     <<"he toured the City of York today.", {"City of York", "York"}>>,
     <<"leaders met at the G20 Summit today.", {"Summit"}>>,
     <<"the agency UK Sport met today.", {"UK"}>>,
     <<"he met the President of the United States today.",
       {"President of the United States"}>>,
     <<"he Googled it on Google today.", {"Google"}>>,
     <<"he met Barack Obama at Google today.", {}>>}

Cases == (Texts \X Catalogues) \cup ExampleCases

\* A Map's keys in insertion order: longer and shorter names interleaved.
TitleOrder ==
    <<"York", "York City", "City", "City of York", "UK", "US", "FBI", "NATO",
      "New York", "New York City", "Google", "Barack Obama", "O'Neil",
      "Who", "The Who", "In York", "Secretary of State", "Summit",
      "President of the United States">>

RECURSIVE KeysIn(_, _)
KeysIn(order, set) ==
    IF order = <<>> THEN <<>>
    ELSE (IF Head(order) \in set THEN <<Head(order)>> ELSE <<>>)
         \o KeysIn(Tail(order), set)

InitMatcher ==
    /\ \E c \in Cases : text = c[1] /\ entitySet = c[2]
    /\ mpc = "extractCandidates"
    /\ candidates = <<>>
    /\ matches = <<>>
    /\ serverMatches = NULL
    /\ inTextMatches = <<>>
    /\ IdleSkip
    /\ IdleWalk
    /\ IdleServer /\ IdlePages /\ IdleFetch /\ IdleCache
    /\ IdleContent /\ IdleRace

ExtractCandidates ==
    /\ mpc = "extractCandidates"
    /\ candidates' = extractCandidates(text)
    /\ mpc' = "findMatches"
    /\ UNCHANGED <<text, entitySet, matches, serverMatches, inTextMatches>>
    /\ UNCHANGED <<skipVars, walkInput, walkState, restVars>>

FindMatches ==
    /\ mpc = "findMatches"
    /\ matches' = findMatches(text, entitySet)
    /\ mpc' = "findMatchesInText"
    /\ UNCHANGED <<text, entitySet, candidates, serverMatches, inTextMatches>>
    /\ UNCHANGED <<skipVars, walkInput, walkState, restVars>>

EntityMatcherFindMatches ==
    /\ mpc = "EntityMatcher"
    /\ \E debug \in BOOLEAN :
           serverMatches' = EntityMatcher_findMatches(entitySet, text, debug)
    /\ mpc' = "done"
    /\ UNCHANGED <<text, entitySet, candidates, matches, inTextMatches>>
    /\ UNCHANGED <<skipVars, walkInput, walkState, restVars>>

FindMatchesInText ==
    /\ mpc = "findMatchesInText"
    /\ inTextMatches' = findMatchesInText(text, KeysIn(TitleOrder, entitySet))
    /\ mpc' = "EntityMatcher"
    /\ UNCHANGED <<text, entitySet, candidates, matches, serverMatches>>
    /\ UNCHANGED <<skipVars, walkInput, walkState, restVars>>

NextMatcher ==
    \/ ExtractCandidates
    \/ FindMatches
    \/ EntityMatcherFindMatches
    \/ FindMatchesInText

SpecMatcher == InitMatcher /\ [][NextMatcher]_vars

\* ---------------------------------------------------------------------
\* Properties of the matcher
\* ---------------------------------------------------------------------

CandidatesReady == mpc # "extractCandidates"
MatchesReady == mpc \in {"findMatchesInText", "EntityMatcher", "done"}
InTextReady == mpc \in {"EntityMatcher", "done"}
ServerReady == mpc = "done"

MatchEndOf(m) == m.index + Len(m.text)
TextsIn(ms) == { ms[i].text : i \in 1..Len(ms) }

\* Any two distinct entries cover disjoint half-open ranges.
Disjoint(ms) ==
    \A i, j \in 1..Len(ms) :
        i # j => \/ MatchEndOf(ms[i]) <= ms[j].index
                 \/ MatchEndOf(ms[j]) <= ms[i].index

\* Every entry is the phrase found at its index in the buffer.
SpansIn(t, ms) ==
    \A i \in 1..Len(ms) : Slice(t, ms[i].index, MatchEndOf(ms[i])) = ms[i].text

\* C2: within the result of one findMatches call and of one
\* findMatchesInText call, any two distinct matches cover disjoint
\* character ranges [index, index + length).
C2_DisjointRanges ==
    /\ MatchesReady => Disjoint(matches)
    /\ InTextReady => Disjoint(inTextMatches)

\* A catalogued name lies inside an accepted longer match and both results
\* hold two matches.
C2_Witness ==
    /\ InTextReady
    /\ Len(matches) >= 2
    /\ Len(inTextMatches) >= 2
    /\ Len(AllOccurrences(text, KeysIn(TitleOrder, entitySet))) > Len(inTextMatches)
    /\ \E i \in 1..Len(inTextMatches) : \E n \in entitySet :
           /\ Len(n) < Len(inTextMatches[i].text)
           /\ Includes(inTextMatches[i].text, n)

\* The positions of the word-boundary occurrences of a name.
OccurrencesOf(t, name) ==
    { p \in 0..(Len(t) - Len(name)) :
        /\ Slice(t, p, p + Len(name)) = name
        /\ WordBoundary(t, p)
        /\ WordBoundary(t, p + Len(name)) }

\* The shorter name occurs in the buffer, and only inside occurrences of
\* the longer one.
OnlyInside(t, short, long) ==
    /\ Len(short) < Len(long)
    /\ OccurrencesOf(t, short) # {}
    /\ \A p \in OccurrencesOf(t, short) : \E q \in OccurrencesOf(t, long) :
           q <= p /\ p + Len(short) <= q + Len(long)

\* A sentence start, read off the buffer: nothing but whitespace before the
\* index, or whitespace back to a '.', '!' or '?'.
StartsSentence(t, index) ==
    \/ \A k \in 0..(index - 1) : At(t, k) \in Space
    \/ \E j \in 0..(index - 1) :
           /\ At(t, j) \in SentenceEnd
           /\ \A k \in (j + 1)..(index - 1) : At(t, k) \in Space

\* A capitalized word (an uppercase letter, then letters, apostrophes or
\* hyphens) ends one space before start.
CapitalizedWordBefore(t, start) ==
    /\ start >= 2
    /\ At(t, start - 1) = " "
    /\ \E i \in 0..(start - 2) :
           /\ At(t, i) \in Upper
           /\ \A k \in (i + 1)..(start - 2) : At(t, k) \in CapsTail

\* An uppercase letter follows one space after end.
CapitalizedWordAfter(t, end) ==
    /\ end + 1 < Len(t)
    /\ At(t, end) = " "
    /\ At(t, end + 1) \in Upper

\* C3 as stated: a shorter catalogued phrase that occurs only inside an
\* occurrence of a longer catalogued phrase is never returned by
\* findMatches.
C3_ShorterNeverReturned ==
    MatchesReady =>
        \A short \in entitySet : \A long \in entitySet :
            OnlyInside(text, short, long) => short \notin TextsIn(matches)

\* C3: when findMatches returns a longer catalogued phrase, no shorter
\* catalogued phrase that occurs only inside its occurrences is returned;
\* a catalogued candidate whose first occurrence passes the contextual
\* filters and overlaps no other returned match at least as long is
\* returned at that span; "he flew to New York City last week." with
\* {New York, New York City} yields exactly New York City at index 11.
C3_LongestMatchWins ==
    MatchesReady =>
        /\ \A i \in 1..Len(matches) : \A short \in entitySet :
               OnlyInside(text, short, matches[i].text)
                   => short \notin TextsIn(matches)
        /\ \A long \in entitySet :
               LET occ == OccurrencesOf(normaliseCurlyQuotes(text), long)
                   a == Min(occ)
                   b == a + Len(long)
               IN  (/\ long \in Range(extractCandidates(normaliseCurlyQuotes(text)))
                    /\ occ # {}
                    /\ ~StartsSentence(text, a)
                    /\ ~CapitalizedWordBefore(normaliseCurlyQuotes(text), a)
                    /\ ~CapitalizedWordAfter(text, b)
                    /\ \A i \in 1..Len(matches) :
                           (matches[i].text # long
                            /\ Len(matches[i].text) >= Len(long))
                               => \/ MatchEndOf(matches[i]) <= a
                                  \/ b <= matches[i].index)
                   => \E i \in 1..Len(matches) :
                          matches[i] = [text |-> long, index |-> a]
        /\ (text = "he flew to New York City last week."
            /\ entitySet = {"New York", "New York City"})
               => matches = <<[text |-> "New York City", index |-> 11]>>

\* A longer phrase is returned while a shorter catalogued phrase occurs
\* only inside it.
C3_Witness ==
    /\ MatchesReady
    /\ \E i \in 1..Len(matches) : \E short \in entitySet :
           OnlyInside(text, short, matches[i].text)

\* C4: no match returned by findMatches or findMatchesInText begins at a
\* sentence start; "Google announced earnings. Barack Obama spoke." with
\* both names catalogued yields no match.
C4_NoSentenceStart ==
    /\ MatchesReady =>
           /\ \A i \in 1..Len(matches) : ~StartsSentence(text, matches[i].index)
           /\ (text = "Google announced earnings. Barack Obama spoke."
               /\ {"Google", "Barack Obama"} \subseteq entitySet)
                  => matches = <<>>
    /\ InTextReady =>
           /\ \A i \in 1..Len(inTextMatches) :
                  ~StartsSentence(text, inTextMatches[i].index)
           /\ (text = "Google announced earnings. Barack Obama spoke."
               /\ {"Google", "Barack Obama"} \subseteq entitySet)
                  => inTextMatches = <<>>

\* A catalogued name occurs after a full stop and both functions left it
\* out, while each returned some other match.
C4_Witness ==
    /\ InTextReady
    /\ matches # <<>>
    /\ inTextMatches # <<>>
    /\ \E n \in entitySet : \E p \in OccurrencesOf(text, n) :
           /\ p > 0
           /\ StartsSentence(text, p)
           /\ n \notin TextsIn(matches)
           /\ n \notin TextsIn(inTextMatches)

\* A whitespace-delimited token that starts with an uppercase letter ends
\* one space before start.
UppercaseTokenBefore(t, start) ==
    /\ start >= 2
    /\ At(t, start - 1) = " "
    /\ \E i \in 0..(start - 2) :
           /\ At(t, i) \in Upper
           /\ i = 0 \/ At(t, i - 1) \in Space
           /\ \A k \in i..(start - 2) : At(t, k) \notin Space

\* C5 as stated: no match returned by findMatches has, one space before
\* its start, a token that starts with an uppercase letter, or an
\* uppercase letter one space after its end.
C5_NoUppercaseTokenAdjacent ==
    MatchesReady =>
        \A i \in 1..Len(matches) :
            /\ ~UppercaseTokenBefore(normaliseCurlyQuotes(text), matches[i].index)
            /\ ~CapitalizedWordAfter(text, MatchEndOf(matches[i]))

\* C5: no match returned by findMatches has, one space before its start, a
\* capitalized word (an uppercase letter followed only by letters,
\* apostrophes or hyphens), or an uppercase letter one space after its
\* end; "he flew to New York City today." with {New York City, City}
\* yields exactly New York City.
C5_NotPartOfLargerPhrase ==
    MatchesReady =>
        /\ \A i \in 1..Len(matches) :
               /\ ~CapitalizedWordBefore(normaliseCurlyQuotes(text), matches[i].index)
               /\ ~CapitalizedWordAfter(text, MatchEndOf(matches[i]))
        /\ (text = "he flew to New York City today."
            /\ entitySet = {"New York City", "City"})
               => matches = <<[text |-> "New York City", index |-> 11]>>

\* A catalogued candidate sits next to a capitalized word, is not covered
\* by any returned match, and is left out.
C5_Witness ==
    /\ MatchesReady
    /\ \E n \in entitySet : \E p \in OccurrencesOf(text, n) :
           /\ \E k \in 1..Len(candidates) : candidates[k] = n
           /\ p = Min(OccurrencesOf(text, n))
           /\ ~StartsSentence(text, p)
           /\ CapitalizedWordBefore(text, p) \/ CapitalizedWordAfter(text, p + Len(n))
           /\ \A i \in 1..Len(matches) :
                  MatchEndOf(matches[i]) <= p \/ p + Len(n) <= matches[i].index
           /\ n \notin TextsIn(matches)

AllCapitals(s) == s # "" /\ CharsOf(s) \subseteq Upper

C7_ServerMatchesShared ==
    ServerReady => serverMatches.result = matches

-----------------------------------------------------------------------------
(* One call of injectWikilinks or processPage.                             *)

Init ==
    /\ IdleSkip
    /\ text = ""
    /\ mpc = "idle"
    /\ candidates = <<>>
    /\ matches = <<>>
    /\ serverMatches = NULL
    /\ inTextMatches = <<>>
    /\ entitySet = WalkCatalogue
    /\ page \in Pages
    /\ leafText \in LeafTexts
    /\ roots \in RootChoices
    /\ \/ /\ host = "server"
          /\ debugArg \in BOOLEAN
          /\ knownArg \in {[isNull |-> TRUE, names |-> <<>>],
                                [isNull |-> FALSE, names |-> KnownEntities]}
          /\ dom = leafText
       \/ /\ host = "extension"
          /\ debugArg = FALSE
          /\ knownArg = [isNull |-> TRUE, names |-> <<>>]
          /\ dom = [l \in Leaves |-> <<TextNode(leafText[l])>>]
    /\ wpc = "start"
    /\ rootIdx = 0
    /\ stack = <<>>
    /\ linkedEntities = {}
    /\ debugInfo = EmptyDebugInfo
    /\ matchLog = <<>>
    /\ linkCount = 0
    /\ lastMatches = <<>>
    /\ response = NoResponse
    /\ IdleServer /\ IdlePages /\ IdleFetch /\ IdleCache
    /\ IdleContent /\ IdleRace

Top == stack[Len(stack)]
TopChild == ChildNodes[Top.element][Top.i]
HasChild == stack # <<>> /\ Top.i <= Len(ChildNodes[Top.element])
IsA(e) == toUpperCase(page[e].tagName) = "A"

\* The frame on top moves on to its next child.
Advance == [stack EXCEPT ![Len(stack)].i = @ + 1]

\* The same step with a ledger that outlives the call.
InjectWikilinks_SharedLedger ==
    /\ wpc = "start" /\ host = "server"
    /\ wpc' = "walk"
    /\ debugInfo' = EmptyDebugInfo
    /\ matchLog' = <<>>
    /\ UNCHANGED <<rootIdx, stack, dom, linkedEntities, linkCount, lastMatches, response>>
    /\ UNCHANGED <<walkInput, matcherVars, skipVars, restVars>>

\* injectWikilinks up to its loop: the ledger, debugInfo and the match log
\* are made new.
InjectWikilinks ==
    /\ wpc = "start" /\ host = "server"
    /\ wpc' = "walk"
    /\ linkedEntities' = {}
    /\ debugInfo' = EmptyDebugInfo
    /\ matchLog' = <<>>
    /\ UNCHANGED <<rootIdx, stack, dom, linkCount, lastMatches, response>>
    /\ UNCHANGED <<walkInput, matcherVars, skipVars, restVars>>

\* for (const element of contentElements) processElement(element, ..., true, true, ...)
ProcessRoot ==
    /\ wpc = "walk" /\ host = "server"
    /\ stack = <<>> /\ rootIdx < Len(roots)
    /\ rootIdx' = rootIdx + 1
    /\ stack' = IF processElement_Returns(page, roots[rootIdx + 1], TRUE, TRUE)
                THEN <<>>
                ELSE <<[element |-> roots[rootIdx + 1], i |-> 1,
                        nowInsideLink |-> IsA(roots[rootIdx + 1])]>>
    /\ UNCHANGED <<wpc, dom, linkedEntities, debugInfo, matchLog, linkCount,
                   lastMatches, response>>
    /\ UNCHANGED <<walkInput, matcherVars, skipVars, restVars>>

\* An element child: processElement(node, matcher, nowInsideLink, ..., false, insideArticle, ...)
ProcessChildElement ==
    /\ wpc = "walk" /\ host = "server"
    /\ HasChild /\ TopChild \in Elements
    /\ stack' = IF processElement_Returns(page, TopChild, FALSE, TRUE)
                THEN Advance
                ELSE Append(Advance,
                            [element |-> TopChild, i |-> 1,
                             nowInsideLink |-> Top.nowInsideLink \/ IsA(TopChild)])
    /\ UNCHANGED <<wpc, rootIdx, dom, linkedEntities, debugInfo, matchLog, linkCount,
                   lastMatches, response>>
    /\ UNCHANGED <<walkInput, matcherVars, skipVars, restVars>>

\* A text child of processElement.
ProcessTextNode ==
    /\ wpc = "walk" /\ host = "server"
    /\ HasChild /\ TopChild \in Leaves
    /\ stack' = Advance
    /\ IF Top.nowInsideLink \/ Len(Trim(dom[TopChild])) < 3
       THEN /\ lastMatches' = <<>>
            /\ UNCHANGED <<dom, linkedEntities, debugInfo, matchLog>>
       ELSE \E found \in {IF knownArg.isNull
                           THEN EntityMatcher_findMatches(entitySet, dom[TopChild], debugArg)
                           ELSE [result |-> EntityMatcher_findMatchesInText(
                                                dom[TopChild], knownArg.names),
                                 debug |-> NULL]} :
            \E collected \in {IF knownArg.isNull /\ debugArg
                               THEN [debugInfo EXCEPT
                                       !.allCandidates = @ \cup Range(found.debug.candidates),
                                       !.skippedNoMatch = @ \o found.debug.unmatched,
                                       !.skippedOverlap = @ \o found.debug.overlapped,
                                       !.skippedPartOfLarger = @ \o found.debug.partOfLarger,
                                       !.skippedSentenceStart = @ \o found.debug.sentenceStart]
                               ELSE debugInfo} :
            \E acc \in {SpliceLinks(dom[TopChild], found.result,
                             [newHtml |-> "", lastIndex |-> 0,
                              linkedEntities |-> linkedEntities,
                              matchLog |-> matchLog, debug |-> debugArg,
                              matched |-> collected.matched,
                              skippedAlreadyLinked |-> collected.skippedAlreadyLinked])} :
                /\ lastMatches' = found.result
                /\ dom' = [dom EXCEPT ![TopChild] = Rewritten(dom[TopChild], acc)]
                /\ linkedEntities' = acc.linkedEntities
                /\ matchLog' = acc.matchLog
                /\ debugInfo' = [collected EXCEPT
                                   !.matched = acc.matched,
                                   !.skippedAlreadyLinked = acc.skippedAlreadyLinked]
    /\ UNCHANGED <<wpc, rootIdx, linkCount, response>>
    /\ UNCHANGED <<walkInput, matcherVars, skipVars, restVars>>

\* processElement has gone through its children.
ProcessElementReturn ==
    /\ wpc = "walk" /\ host = "server"
    /\ stack # <<>> /\ ~HasChild
    /\ stack' = SubSeq(stack, 1, Len(stack) - 1)
    /\ UNCHANGED <<wpc, rootIdx, dom, linkedEntities, debugInfo, matchLog, linkCount,
                   lastMatches, response>>
    /\ UNCHANGED <<walkInput, matcherVars, skipVars, restVars>>

\* injectWikilinks after its loop: the stats and, with debug, the lists.
InjectWikilinksReturn ==
    /\ wpc = "walk" /\ host = "server"
    /\ stack = <<>> /\ rootIdx = Len(roots)
    /\ wpc' = "done"
    /\ response' =
           IF debugArg
           THEN [sent |-> TRUE, stats |-> [linked |-> Cardinality(linkedEntities)],
                 matchLog |-> matchLog,
                 debugInfo |-> [allCandidates |-> debugInfo.allCandidates,
                                matched |-> debugInfo.matched,
                                skippedNoMatch |-> Dedup(debugInfo.skippedNoMatch),
                                skippedOverlap |-> debugInfo.skippedOverlap,
                                skippedPartOfLarger |-> debugInfo.skippedPartOfLarger,
                                skippedAlreadyLinked |-> debugInfo.skippedAlreadyLinked]]
           ELSE [sent |-> TRUE, stats |-> [linked |-> Cardinality(linkedEntities)],
                 matchLog |-> matchLog]
    /\ UNCHANGED <<rootIdx, stack, dom, linkedEntities, debugInfo, matchLog, linkCount,
                   lastMatches>>
    /\ UNCHANGED <<walkInput, matcherVars, skipVars, restVars>>

\* processPage up to its loop: a new ledger and a count of 0.
ProcessPage ==
    /\ wpc = "start" /\ host = "extension"
    /\ wpc' = "walk"
    /\ linkedEntities' = {}
    /\ linkCount' = 0
    /\ UNCHANGED <<rootIdx, stack, dom, debugInfo, matchLog, lastMatches, response>>
    /\ UNCHANGED <<walkInput, matcherVars, skipVars, restVars>>

\* for (const container of containers) walkAndProcess(container, linkedEntities, false, true)
WalkRoot ==
    /\ wpc = "walk" /\ host = "extension"
    /\ stack = <<>> /\ rootIdx < Len(roots)
    /\ rootIdx' = rootIdx + 1
    /\ stack' = IF walkAndProcess_Returns(page, roots[rootIdx + 1], TRUE)
                THEN <<>>
                ELSE <<[element |-> roots[rootIdx + 1], i |-> 1,
                        nowInsideLink |-> IsA(roots[rootIdx + 1])]>>
    /\ UNCHANGED <<wpc, dom, linkedEntities, debugInfo, matchLog, linkCount,
                   lastMatches, response>>
    /\ UNCHANGED <<walkInput, matcherVars, skipVars, restVars>>

\* An element child: walkAndProcess(node, linkedEntities, nowInsideLink, false)
WalkChildElement ==
    /\ wpc = "walk" /\ host = "extension"
    /\ HasChild /\ TopChild \in Elements
    /\ stack' = IF walkAndProcess_Returns(page, TopChild, FALSE)
                THEN Advance
                ELSE Append(Advance,
                            [element |-> TopChild, i |-> 1,
                             nowInsideLink |-> Top.nowInsideLink \/ IsA(TopChild)])
    /\ UNCHANGED <<wpc, rootIdx, dom, linkedEntities, debugInfo, matchLog, linkCount,
                   lastMatches, response>>
    /\ UNCHANGED <<walkInput, matcherVars, skipVars, restVars>>

\* The children of walkAndProcess that stand in one text slot.
WalkTextNode ==
    /\ wpc = "walk" /\ host = "extension"
    /\ HasChild /\ TopChild \in Leaves
    /\ stack' = Advance
    /\ IF Top.nowInsideLink
       THEN /\ lastMatches' = <<>>
            /\ UNCHANGED <<dom, linkedEntities, linkCount>>
       ELSE \E acc \in {WalkSlot(dom[TopChild], entitySet,
                                  [nodes |-> <<>>, count |-> 0,
                                   linkedEntities |-> linkedEntities,
                                   matches |-> <<>>])} :
                /\ lastMatches' = acc.matches
                /\ dom' = [dom EXCEPT ![TopChild] = acc.nodes]
                /\ linkedEntities' = acc.linkedEntities
                /\ linkCount' = linkCount + acc.count
    /\ UNCHANGED <<wpc, rootIdx, debugInfo, matchLog, response>>
    /\ UNCHANGED <<walkInput, matcherVars, skipVars, restVars>>

\* walkAndProcess has gone through its children.
WalkAndProcessReturn ==
    /\ wpc = "walk" /\ host = "extension"
    /\ stack # <<>> /\ ~HasChild
    /\ stack' = SubSeq(stack, 1, Len(stack) - 1)
    /\ UNCHANGED <<wpc, rootIdx, dom, linkedEntities, debugInfo, matchLog, linkCount,
                   lastMatches, response>>
    /\ UNCHANGED <<walkInput, matcherVars, skipVars, restVars>>

\* processPage after its loop: the badge message when links were made.
ProcessPageReturn ==
    /\ wpc = "walk" /\ host = "extension"
    /\ stack = <<>> /\ rootIdx = Len(roots)
    /\ wpc' = "done"
    /\ response' = IF linkCount > 0
                   THEN [sent |-> TRUE, type |-> "setBadge", count |-> linkCount]
                   ELSE NoResponse
    /\ UNCHANGED <<rootIdx, stack, dom, linkedEntities, debugInfo, matchLog, linkCount,
                   lastMatches>>
    /\ UNCHANGED <<walkInput, matcherVars, skipVars, restVars>>

Next ==
    \/ InjectWikilinks
    \/ ProcessRoot
    \/ ProcessChildElement
    \/ ProcessTextNode
    \/ ProcessElementReturn
    \/ InjectWikilinksReturn
    \/ ProcessPage
    \/ WalkRoot
    \/ WalkChildElement
    \/ WalkTextNode
    \/ WalkAndProcessReturn
    \/ ProcessPageReturn

Spec == Init /\ [][Next]_vars

SpecSkip == InitSkip /\ [][NextSkip]_vars

-----------------------------------------------------------------------------
(* server/lib/readability.js and the part of the request handler of        *)
(* server/server.js that chooses the pipeline.  What JSDOM, Readability    *)
(* and isProbablyReaderable do with a page is given by the extractor       *)
(* record: kind "throws" (one of them throws), "not-readerable"            *)
(* (isProbablyReaderable says no), "no-article" (parse() returns null) or  *)
(* "article" with the article's textContent.                               *)

ArticleTexts ==
    {"", "so Oslo met New York.", "he met Oslo today.", "nothing to see here."}

Extractors ==
    {[kind |-> k, textContent |-> ""] : k \in {"throws", "not-readerable", "no-article"}}
    \cup {[kind |-> "article", textContent |-> t] : t \in ArticleTexts}

NotReaderable == [isReaderable |-> FALSE, textContent |-> "", threw |-> FALSE]

\* The same function without its try/catch.
extractWithReadability_NoCatch(x) ==
    IF x.kind = "throws"
    THEN [isReaderable |-> FALSE, textContent |-> "", threw |-> TRUE]
    ELSE IF x.kind = "article" /\ x.textContent # ""
         THEN [isReaderable |-> TRUE, textContent |-> x.textContent, threw |-> FALSE]
         ELSE NotReaderable

\* extractWithReadability(html, url); threw says that the call threw.
extractWithReadability(x) ==
    IF x.kind = "throws" THEN NotReaderable
    ELSE IF x.kind = "not-readerable" THEN NotReaderable
    ELSE IF x.kind = "no-article" \/ x.textContent = "" THEN NotReaderable
    ELSE [isReaderable |-> TRUE, textContent |-> x.textContent, threw |-> FALSE]

MatchTexts(ms) == [i \in 1..Len(ms) |-> ms[i].text]

\* EntityMatcher.discoverEntities(articleText, debug).entities: the keys of
\* the Map, in insertion order.
discoverEntities(entities, articleText, debug) ==
    CHOOSE r \in { Dedup(MatchTexts(found.result)) :
                      found \in {EntityMatcher_findMatches(entities, articleText, debug)} } :
        TRUE

InitServer ==
    /\ IdleSkip /\ IdleMatcher /\ IdlePages /\ IdleFetch /\ IdleCache
    /\ IdleContent /\ IdleRace
    /\ entitySet = WalkCatalogue
    /\ page = [e \in Elements |-> PlainElement]
    /\ leafText \in LeafTexts
    /\ roots \in RootChoices
    /\ host = "server"
    /\ debugArg \in BOOLEAN
    /\ knownArg = [isNull |-> TRUE, names |-> <<>>]
    /\ dom = leafText
    /\ wpc = "idle"
    /\ rootIdx = 0
    /\ stack = <<>>
    /\ linkedEntities = {}
    /\ debugInfo = EmptyDebugInfo
    /\ matchLog = <<>>
    /\ linkCount = 0
    /\ lastMatches = <<>>
    /\ response = NoResponse
    /\ extractor \in Extractors
    /\ readability = NotReaderable
    /\ isIndex \in BOOLEAN
    /\ spc = "isIndexPage"

\* if (isIndex): no injection at all.
SkipIndexPage ==
    /\ spc = "isIndexPage" /\ isIndex
    /\ spc' = "send"
    /\ UNCHANGED <<extractor, readability, isIndex>>
    /\ UNCHANGED <<matcherVars, skipVars, walkInput, walkState, pageVars, fetchVars,
                   cacheVars, contentVars, raceVars>>

\* const readability = extractWithReadability(html, targetUrl); an
\* exception would reach the handler's catch.
ExtractWithReadability ==
    /\ spc = "isIndexPage" /\ ~isIndex
    /\ readability' = extractWithReadability(extractor)
    /\ spc' = IF readability'.threw THEN "error" ELSE "readability"
    /\ UNCHANGED <<extractor, isIndex>>
    /\ UNCHANGED <<matcherVars, skipVars, walkInput, walkState, pageVars, fetchVars,
                   cacheVars, contentVars, raceVars>>

\* if (readability.isReaderable): knownEntities = discovered.entities, and
\* the call of injectWikilinks begins.
DiscoverEntities ==
    /\ spc = "readability" /\ readability.isReaderable
    /\ knownArg' = [isNull |-> FALSE,
                    names |-> discoverEntities(entitySet, readability.textContent,
                                               debugArg)]
    /\ spc' = "injectWikilinks"
    /\ wpc' = "start"
    /\ UNCHANGED <<page, leafText, roots, host, debugArg>>
    /\ UNCHANGED <<rootIdx, stack, dom, linkedEntities, debugInfo, matchLog, linkCount,
                   lastMatches, response>>
    /\ UNCHANGED <<extractor, readability, isIndex>>
    /\ UNCHANGED <<matcherVars, skipVars, pageVars, fetchVars, cacheVars, contentVars, raceVars>>

\* else: knownEntities stays null, and the call of injectWikilinks begins.
FallbackPipeline ==
    /\ spc = "readability" /\ ~readability.isReaderable
    /\ spc' = "injectWikilinks"
    /\ wpc' = "start"
    /\ UNCHANGED <<rootIdx, stack, dom, linkedEntities, debugInfo, matchLog, linkCount,
                   lastMatches, response>>
    /\ UNCHANGED <<extractor, readability, isIndex>>
    /\ UNCHANGED <<matcherVars, skipVars, walkInput, pageVars, fetchVars, cacheVars, contentVars, raceVars>>

\* res.send(processedHtml)
SendPage ==
    /\ \/ spc = "send"
       \/ spc = "injectWikilinks" /\ wpc = "done"
    /\ spc' = "sent"
    /\ UNCHANGED <<extractor, readability, isIndex>>
    /\ UNCHANGED <<matcherVars, skipVars, walkInput, walkState, pageVars, fetchVars,
                   cacheVars, contentVars, raceVars>>

NextServer ==
    \/ SkipIndexPage
    \/ ExtractWithReadability
    \/ DiscoverEntities
    \/ FallbackPipeline
    \/ InjectWikilinks
    \/ ProcessRoot
    \/ ProcessChildElement
    \/ ProcessTextNode
    \/ ProcessElementReturn
    \/ InjectWikilinksReturn
    \/ SendPage

SpecServer == InitServer /\ [][NextServer]_vars

-----------------------------------------------------------------------------
(* Several pages, one call each.  On the server injectWikilinks runs to    *)
(* its end without yielding (it has no await), so the calls of concurrent  *)
(* requests follow one another; in the browser every page runs its own     *)
(* copy of content.js.  The model keeps its variables from call to call:   *)
(* only what a call makes new is new.  The pages differ in their text.     *)

PageQueues ==
    { <<b, a, b>> : a \in LeafTexts, b \in LeafTexts }

FreshDom(lt) ==
    IF host = "server" THEN lt ELSE [l \in Leaves |-> <<TextNode(lt[l])>>]

InitPages ==
    /\ IdleSkip /\ IdleMatcher /\ IdleServer /\ IdleFetch /\ IdleCache
    /\ IdleContent /\ IdleRace
    /\ entitySet = WalkCatalogue
    /\ page = [e \in Elements |-> PlainElement]
    /\ queue \in PageQueues
    /\ leafText = queue[1]
    /\ roots \in RootChoices
    /\ \/ /\ host = "server"
          /\ debugArg \in BOOLEAN
          /\ knownArg \in {[isNull |-> TRUE, names |-> <<>>],
                                [isNull |-> FALSE, names |-> KnownEntities]}
       \/ /\ host = "extension"
          /\ debugArg = FALSE
          /\ knownArg = [isNull |-> TRUE, names |-> <<>>]
    /\ dom = FreshDom(leafText)
    /\ wpc = "start"
    /\ rootIdx = 0
    /\ stack = <<>>
    /\ linkedEntities = {}
    /\ debugInfo = EmptyDebugInfo
    /\ matchLog = <<>>
    /\ linkCount = 0
    /\ lastMatches = <<>>
    /\ response = NoResponse
    /\ calls = 1
    /\ firstResult = [recorded |-> FALSE]

\* The next request, or the next page load: a new tree, a new call.
NextPage ==
    /\ wpc = "done" /\ calls < Len(queue)
    /\ calls' = calls + 1
    /\ firstResult' = IF calls = 1
                      THEN [recorded |-> TRUE, dom |-> dom, response |-> response]
                      ELSE firstResult
    /\ leafText' = queue[calls + 1]
    /\ dom' = FreshDom(queue[calls + 1])
    /\ wpc' = "start"
    /\ rootIdx' = 0
    /\ stack' = <<>>
    /\ UNCHANGED <<linkedEntities, debugInfo, matchLog, linkCount, lastMatches, response>>
    /\ UNCHANGED <<page, roots, host, debugArg, knownArg, queue>>
    /\ UNCHANGED <<matcherVars, skipVars, serverVars, fetchVars, cacheVars, contentVars, raceVars>>

NextPages ==
    \/ Next
    \/ NextPage

SpecPages == InitPages /\ [][NextPages]_vars

-----------------------------------------------------------------------------
(* server/lib/fetcher.js.  A URL is its string.  The network is given by   *)
(* what it answers to the first request, to the second, and so on: a       *)
(* redirect (status 301, 302, 303, 307 or 308) with its Location header    *)
(* (NULL when the header is missing), a page, a page that is too large, or *)
(* a status that is not ok.                                                 *)

MAX_REDIRECTS == 5

\* s.indexOf(pat), or -1.
IndexOf(s, pat) ==
    LET hits == { i \in 0..(Len(s) - Len(pat)) : Slice(s, i, i + Len(pat)) = pat }
    IN  IF hits = {} THEN -1 ELSE Min(hits)

EndsWith(s, suffix) ==
    Len(suffix) <= Len(s) /\ Slice(s, Len(s) - Len(suffix), Len(s)) = suffix

\* new URL(urlString): protocol and hostname (the parser lower-cases both),
\* and the origin; ok is FALSE where the constructor throws.
ParseUrl(u) ==
    LET i == IndexOf(u, "://")
        rest == Slice(u, i + 3, Len(u))
        slash == IndexOf(rest, "/")
        hostEnd == IF slash = -1 THEN Len(rest) ELSE slash
    IN  IF i < 1 \/ hostEnd = 0 \/ \E k \in 0..(i - 1) : At(u, k) \notin Upper \cup Lower
        THEN [ok |-> FALSE, protocol |-> "", hostname |-> "", origin |-> ""]
        ELSE [ok |-> TRUE,
              protocol |-> toLowerCase(Slice(u, 0, i)) \o ":",
              hostname |-> toLowerCase(Slice(rest, 0, hostEnd)),
              origin |-> Slice(u, 0, i + 3 + hostEnd)]

\* hostname.replace(/^www\./, '')
StripWww(h) == IF Len(h) >= 4 /\ Slice(h, 0, 4) = "www." THEN Slice(h, 4, Len(h)) ELSE h

\* isUrlAllowed(urlString, allowedDomains)
isUrlAllowed(urlString, domains) ==
    LET url == ParseUrl(urlString)
        hostname == StripWww(toLowerCase(url.hostname))
    IN  /\ url.ok
        /\ url.protocol \in {"http:", "https:"}
        /\ \E k \in 1..Len(domains) :
              hostname = domains[k] \/ EndsWith(hostname, "." \o domains[k])

\* new URL(location, currentUrl).href for an absolute URL, a scheme-relative
\* one (//host/path), a path from the root and a path from the directory.
ResolveUrl(location, base) ==
    LET b == ParseUrl(base)
        path == Slice(base, Len(b.origin), Len(base))
        lastSlash == Max({ k \in 0..(Len(path) - 1) : At(path, k) = "/" } \cup {-1})
    IN  IF ParseUrl(location).ok THEN location
        ELSE IF Len(location) >= 2 /\ Slice(location, 0, 2) = "//"
             THEN b.protocol \o location
        ELSE IF Len(location) >= 1 /\ At(location, 0) = "/" THEN b.origin \o location
        ELSE b.origin \o (IF lastSlash = -1 THEN "/" ELSE Slice(path, 0, lastSlash + 1))
                      \o location

Thrown(message) == [kind |-> "throw", message |-> message, url |-> ""]

\* A loop body that follows a redirect without looking at its target.
AfterResponse_NoRevalidation(resp, cur, domains) ==
    IF resp.kind = "redirect"
    THEN IF resp.location = NULL \/ resp.location = ""
         THEN Thrown("HTTP 302: redirect with no Location header")
         ELSE [kind |-> "continue", message |-> "", url |-> ResolveUrl(resp.location, cur)]
    ELSE IF resp.kind = "not-ok" THEN Thrown("HTTP 404: Not Found")
    ELSE IF resp.kind = "too-large" THEN Thrown("Response too large")
    ELSE [kind |-> "return", message |-> "", url |-> cur]

\* The loop body after await fetch(currentUrl, ...): continue with the
\* redirect target, throw, or return the page.
AfterResponse(resp, cur, domains) ==
    IF resp.kind = "redirect"
    THEN IF resp.location = NULL \/ resp.location = ""
         THEN Thrown("HTTP 302: redirect with no Location header")
         ELSE IF ~isUrlAllowed(ResolveUrl(resp.location, cur), domains)
              THEN Thrown("URL blocked: redirect to unsupported site")
              ELSE [kind |-> "continue", message |-> "",
                    url |-> ResolveUrl(resp.location, cur)]
    ELSE IF resp.kind = "not-ok" THEN Thrown("HTTP 404: Not Found")
    ELSE IF resp.kind = "too-large" THEN Thrown("Response too large")
    ELSE [kind |-> "return", message |-> "", url |-> cur]

MaxChain == 7

StartUrls ==
    {"https://www.bbc.com/news/a", "http://News.BBC.com/b", "https://evilbbc.com/x",
     "https://bbc.com.evil.org/x", "ftp://bbc.com/file", "bbc.com/news"}

GoodLocations == {"https://news.bbc.com/world/c", "/sport", "d"}

BadLocations == {"https://evilbbc.com/x", "//evil.org/x", "ftp://bbc.com/file"}

Redirect(location) == [kind |-> "redirect", location |-> location]

LastResponses ==
    {[kind |-> k, location |-> NULL] : k \in {"page", "not-ok", "too-large", "redirect"}}
    \cup {Redirect(l) : l \in BadLocations}

\* k redirects that the allow-list lets through, then one last response.
Chains ==
    { [i \in 1..(k + 1) |-> IF i <= k THEN Redirect(l) ELSE last] :
        k \in 0..(MaxChain - 1), l \in GoodLocations, last \in LastResponses }

InitFetch ==
    /\ IdleSkip /\ IdleMatcher /\ IdleWalk /\ IdleServer /\ IdlePages /\ IdleCache
    /\ IdleContent /\ IdleRace
    /\ entitySet = {}
    /\ fetchUrl \in StartUrls
    /\ allowedDomains \in {[given |-> TRUE, domains |-> <<"bbc.com", "theguardian.com">>],
                           [given |-> FALSE, domains |-> <<>>]}
    /\ responses \in Chains
    /\ currentUrl = ""
    /\ redirects = 0
    /\ requested = <<>>
    /\ fetchResult = [kind |-> "none"]
    /\ fpc = "call"

\* fetchPage up to its loop.
FetchPage ==
    /\ fpc = "call"
    /\ IF ~allowedDomains.given
       THEN /\ fetchResult' = Thrown("allowedDomains required")
            /\ fpc' = "done"
            /\ UNCHANGED currentUrl
       ELSE IF ~isUrlAllowed(fetchUrl, allowedDomains.domains)
       THEN /\ fetchResult' = Thrown("URL blocked: site not supported")
            /\ fpc' = "done"
            /\ UNCHANGED currentUrl
       ELSE /\ currentUrl' = fetchUrl
            /\ fpc' = "loop"
            /\ UNCHANGED fetchResult
    /\ UNCHANGED <<fetchUrl, allowedDomains, responses, redirects, requested>>
    /\ UNCHANGED <<matcherVars, skipVars, walkInput, walkState, serverVars, pageVars,
                   cacheVars, contentVars, raceVars>>

\* One turn of the loop: the request, and what its response leads to.
FetchRequest ==
    /\ fpc = "loop" /\ redirects <= MAX_REDIRECTS
    /\ Len(requested) < Len(responses)
    /\ requested' = Append(requested, currentUrl)
    /\ \E next \in {AfterResponse(responses[Len(requested) + 1], currentUrl,
                                  allowedDomains.domains)} :
          IF next.kind = "continue"
          THEN /\ currentUrl' = next.url
               /\ redirects' = redirects + 1
               /\ UNCHANGED <<fetchResult, fpc>>
          ELSE /\ fetchResult' = next
               /\ fpc' = "done"
               /\ UNCHANGED <<currentUrl, redirects>>
    /\ UNCHANGED <<fetchUrl, allowedDomains, responses>>
    /\ UNCHANGED <<matcherVars, skipVars, walkInput, walkState, serverVars, pageVars,
                   cacheVars, contentVars, raceVars>>

\* After the loop: throw new Error('Too many redirects').
TooManyRedirects ==
    /\ fpc = "loop" /\ redirects > MAX_REDIRECTS
    /\ fetchResult' = Thrown("Too many redirects")
    /\ fpc' = "done"
    /\ UNCHANGED <<fetchUrl, allowedDomains, responses, currentUrl, redirects, requested>>
    /\ UNCHANGED <<matcherVars, skipVars, walkInput, walkState, serverVars, pageVars,
                   cacheVars, contentVars, raceVars>>

NextFetch ==
    \/ FetchPage
    \/ FetchRequest
    \/ TooManyRedirects

SpecFetch == InitFetch /\ [][NextFetch]_vars

-----------------------------------------------------------------------------
(* server/lib/cache.js.  The index is the sequence of its entries in       *)
(* insertion order (the order of Object.entries); a value is given by its  *)
(* size in bytes, a file by the key it was written for.  get and set are   *)
(* async: a call of set that has come back from evictIfNeeded waits for    *)
(* its file to be written while other calls run.                           *)

CacheMaxSize == 3       \* options.maxSize
CacheTtl == 1           \* options.ttl
MaxNow == 2
MaxPending == 2

CacheKeys == {"key1", "key2", "key3"}
ValueSizes == {1, 2, 4}

RECURSIVE TotalSize(_)
TotalSize(index) ==
    IF index = <<>> THEN 0 ELSE Head(index).size + TotalSize(Tail(index))

KeysOf(index) == { index[i].key : i \in 1..Len(index) }

EntryOf(index, key) == index[CHOOSE i \in 1..Len(index) : index[i].key = key]

Without(index, key) == SelectSeq(index, LAMBDA e : e.key # key)

\* The loop that finds the oldest entry: the first one with the smallest
\* accessed time.
OldestKey(index) ==
    index[CHOOSE i \in 1..Len(index) :
              /\ \A j \in 1..Len(index) : index[i].accessed <= index[j].accessed
              /\ \A j \in 1..(i - 1) : index[j].accessed > index[i].accessed].key

\* evictIfNeeded(newSize): the index afterwards and the entries removed.
RECURSIVE evictIfNeeded(_, _, _)
evictIfNeeded(index, newSize, evicted) ==
    IF TotalSize(index) + newSize > CacheMaxSize /\ Len(index) > 0
    THEN evictIfNeeded(Without(index, OldestKey(index)), newSize,
                       Append(evicted, EntryOf(index, OldestKey(index))))
    ELSE [index |-> index, evicted |-> evicted]

\* this.index[key] = entry: an existing key keeps its place.
Assign(index, entry) ==
    IF entry.key \in KeysOf(index)
    THEN [i \in 1..Len(index) |-> IF index[i].key = entry.key THEN entry ELSE index[i]]
    ELSE Append(index, entry)

InitCache ==
    /\ IdleSkip /\ IdleMatcher /\ IdleWalk /\ IdleServer /\ IdlePages /\ IdleFetch
    /\ IdleContent /\ IdleRace
    /\ entitySet = {}
    /\ cacheIndex = <<>>
    /\ cacheFiles = {}
    /\ now = 0
    /\ cachePending = <<>>
    /\ cacheOp = [op |-> "init", key |-> "", size |-> 0, evicted |-> <<>>, hit |-> FALSE]

OtherVars ==
    <<matcherVars, skipVars, walkInput, walkState, serverVars, pageVars, fetchVars,
      contentVars, raceVars>>

\* Time passes.
Tick ==
    /\ now < MaxNow
    /\ now' = now + 1
    /\ cacheOp' = [op |-> "tick", key |-> "", size |-> 0, evicted |-> <<>>, hit |-> FALSE]
    /\ UNCHANGED <<cacheIndex, cacheFiles, cachePending, OtherVars>>

\* get(key)
CacheGet ==
    \E key \in CacheKeys :
        /\ IF key \notin KeysOf(cacheIndex)
           THEN /\ UNCHANGED <<cacheIndex, cacheFiles>>
                /\ cacheOp' = [op |-> "get", key |-> key, size |-> 0, evicted |-> <<>>,
                               hit |-> FALSE]
           ELSE IF now - EntryOf(cacheIndex, key).accessed > CacheTtl
           THEN /\ cacheFiles' = cacheFiles \ {key}
                /\ cacheIndex' = Without(cacheIndex, key)
                /\ cacheOp' = [op |-> "get", key |-> key, size |-> 0, evicted |-> <<>>,
                               hit |-> FALSE]
           ELSE IF key \in cacheFiles
           THEN /\ cacheIndex' = Assign(cacheIndex,
                                        [EntryOf(cacheIndex, key) EXCEPT !.accessed = now])
                /\ cacheOp' = [op |-> "get", key |-> key, size |-> 0, evicted |-> <<>>,
                               hit |-> TRUE]
                /\ UNCHANGED cacheFiles
           ELSE /\ cacheIndex' = Without(cacheIndex, key)
                /\ cacheOp' = [op |-> "get", key |-> key, size |-> 0, evicted |-> <<>>,
                               hit |-> FALSE]
                /\ UNCHANGED cacheFiles
        /\ UNCHANGED <<now, cachePending, OtherVars>>

\* set(key, value) up to the return of evictIfNeeded(size).
CacheSetEvict ==
    \E key \in CacheKeys, size \in ValueSizes :
        /\ Len(cachePending) < MaxPending
        /\ \E r \in {evictIfNeeded(cacheIndex, size, <<>>)} :
              /\ cacheIndex' = r.index
              /\ cacheFiles' = cacheFiles \ KeysOf(r.evicted)
              /\ cacheOp' = [op |-> "evict", key |-> key, size |-> size,
                             evicted |-> r.evicted, hit |-> FALSE]
        /\ cachePending' = Append(cachePending, [key |-> key, size |-> size])
        /\ UNCHANGED <<now, OtherVars>>

\* The rest of set: the file is written, the entry is put in the index.
CacheSetWrite ==
    \E i \in 1..Len(cachePending) :
        /\ cacheFiles' = cacheFiles \cup {cachePending[i].key}
        /\ cacheIndex' = Assign(cacheIndex,
                                [key |-> cachePending[i].key, size |-> cachePending[i].size,
                                 accessed |-> now])
        /\ cachePending' = [j \in 1..(Len(cachePending) - 1) |->
                               IF j < i THEN cachePending[j] ELSE cachePending[j + 1]]
        /\ cacheOp' = [op |-> "set", key |-> cachePending[i].key,
                       size |-> cachePending[i].size, evicted |-> <<>>, hit |-> FALSE]
        /\ UNCHANGED <<now, OtherVars>>

NextCache ==
    \/ Tick
    \/ CacheGet
    \/ CacheSetEvict
    \/ CacheSetWrite

SpecCache == InitCache /\ [][NextCache]_vars

-----------------------------------------------------------------------------
(* Properties of the classifier and of the walks.                          *)

\* What stood in a text slot when the page was loaded.
Original(l) == IF host = "server" THEN leafText[l] ELSE <<TextNode(leafText[l])>>

Untouched(l) == dom[l] = Original(l)

\* How often pat occurs in s.
CountIn(s, pat) ==
    Cardinality({ i \in 0..(Len(s) - Len(pat)) : Slice(s, i, i + Len(pat)) = pat })

\* The links around phrase p that stand in slot l.
LinksIn(l, p) ==
    IF host = "server"
    THEN CountIn(dom[l], "title=\"" \o p \o "\">" \o p \o "</a>")
    ELSE Cardinality({ k \in 1..Len(dom[l]) : dom[l][k].type = "a" /\ dom[l][k].text = p })

RECURSIVE SumLinks(_, _)
SumLinks(ls, p) ==
    IF ls = {} THEN 0
    ELSE LET l == CHOOSE x \in ls : TRUE
         IN  LinksIn(l, p) + SumLinks(ls \ {l}, p)

\* The links around phrase p on the whole page.
LinkCount(p) == SumLinks(Leaves, p)

\* The matches of the last text node that met their phrase in the ledger:
\* the phrase was linked before this node, or earlier in this node.
MetLedger(ms, before) ==
    { i \in 1..Len(ms) :
        \/ ms[i].text \in before
        \/ \E j \in 1..(i - 1) : ms[j].text = ms[i].text }

\* C1: during one call of injectWikilinks or processPage every phrase is
\* wrapped in a link at most once on the whole page, and exactly the
\* phrases of the ledger are wrapped; the ledger only grows; a phrase in the
\* ledger gets no further link; and with debug on, every match of a text
\* node that meets its phrase in the ledger is added to
\* skippedAlreadyLinked.
C1_FirstOccurrenceOnly ==
    /\ [](host \in {"server", "extension"} =>
            \A p \in entitySet :
                /\ LinkCount(p) <= 1
                /\ (wpc # "start" => (LinkCount(p) = 1 <=> p \in linkedEntities)))
    /\ [][wpc = "walk" =>
            /\ linkedEntities \subseteq linkedEntities'
            /\ \A p \in linkedEntities : dom' = dom \/ LinkCount(p)' = LinkCount(p)
            /\ (host = "server" /\ HasChild /\ TopChild \in Leaves) =>
                   Len(debugInfo'.skippedAlreadyLinked)
                       = Len(debugInfo.skippedAlreadyLinked)
                         + (IF debugArg THEN Cardinality(MetLedger(lastMatches', linkedEntities)) ELSE 0)
         ]_vars

\* With debug on, a later text node and a later match of the same text node
\* were skipped as already linked, and both phrases are linked once.
C1_Witness ==
    /\ wpc = "done" /\ host = "server" /\ debugArg /\ ~knownArg.isNull
    /\ linkedEntities = {"New York", "Oslo"}
    /\ Len(debugInfo.skippedAlreadyLinked) >= 4
    /\ Cardinality({ l \in Leaves : ~Untouched(l) }) = 1
    /\ Cardinality({ l \in Leaves : Len(Trim(leafText[l])) >= 3 }) = 3

\* The classifier's decision on an element that is no root: the skip rules
\* say skip, and the element is not an LI, TH or TD inside a root.
ClassifierSkips(e) ==
    /\ e \notin Range(roots)
    /\ ~(/\ toUpperCase(page[e].tagName) \in ALLOW_INSIDE_ARTICLE
         /\ Ancestors(e) \cap Range(roots) # {})
    /\ shouldSkipElement(page[e],
           [s \in Range(SKIP_SELECTORS) |-> closestAdapter(page, e, s)],
           getClassAdapter(page, e))

\* C8 as stated: no text leaf in the subtree of an element that is no root
\* and on which the classifier decides skip is modified, on the server and
\* in the browser.
C8_SkipContainment ==
    host \in {"server", "extension"} =>
        \A e \in Elements : \A l \in Leaves :
            (ClassifierSkips(e) /\ e \in Ancestors(l)) => Untouched(l)

\* C9 as stated: shouldSkipElement returns true whenever the tag, the
\* selector callback or the class callback throws, and for an element that
\* is null or undefined or has no tag name, whatever the callbacks return.
C9_AmbiguityResolvesToSkip ==
    skpc = "done" =>
        ((\/ skElement.isNull
          \/ skElement.tagName \in {UNDEFINED, THROWS}
          \/ \E s \in Range(SKIP_SELECTORS) : skClosestFn[s] = THROWS
          \/ skGetClassFn.kind = THROWS)
            => skResult = TRUE)

\* C10 as stated: a text leaf with an A element among its ancestors is left
\* unchanged, whether the A is below the root, the root or above the root.
C10_NoLinkInsideHyperlink ==
    host \in {"server", "extension"} =>
        \A l \in Leaves :
            (\E a \in Ancestors(l) : toUpperCase(page[a].tagName) = "A") => Untouched(l)

\* What the text-node branch of processElement leaves behind for a text t,
\* computed with the debug flag dbg: the new rawText, the ledger, the match
\* log and the matches.
TextNodeOutcome(t, dbg) ==
    CHOOSE r \in UNION
        { { [html |-> Rewritten(t, acc),
             linkedEntities |-> acc.linkedEntities,
             matchLog |-> acc.matchLog,
             matches |-> ms] :
               acc \in {SpliceLinks(t, ms,
                            [newHtml |-> "", lastIndex |-> 0,
                             linkedEntities |-> linkedEntities,
                             matchLog |-> matchLog, debug |-> dbg,
                             matched |-> <<>>, skippedAlreadyLinked |-> <<>>])} } :
            ms \in {IF knownArg.isNull
                     THEN EntityMatcher_findMatches(entitySet, t, dbg).result
                     ELSE EntityMatcher_findMatchesInText(t, knownArg.names)} } : TRUE

\* A text node that the server's walk is about to match.
AtMatchedTextNode ==
    /\ host = "server" /\ wpc = "walk"
    /\ HasChild /\ TopChild \in Leaves
    /\ ~Top.nowInsideLink /\ Len(Trim(dom[TopChild])) >= 3

\* C11: the debug flag changes nothing but the diagnostics.  At every text
\* node the matches (text and index) of EntityMatcher.findMatches, the new
\* html of the node, the ledger and the match log are what they are with
\* debug on and what they are with debug off; the steps of the walk do not
\* depend on the flag; and the returned stats.linked and matchLog are the
\* size of the ledger and the match log whether debug is on or off.
C11_DebugIsAdditive ==
    /\ [][AtMatchedTextNode =>
            \A dbg \in BOOLEAN :
                \E r \in {TextNodeOutcome(dom[TopChild], dbg)} :
                    /\ lastMatches' = r.matches
                    /\ dom' = [dom EXCEPT ![TopChild] = r.html]
                    /\ linkedEntities' = r.linkedEntities
                    /\ matchLog' = r.matchLog
                    /\ stack' = Advance
         ]_vars
    /\ [](host = "server" /\ wpc = "done" =>
            /\ response.stats.linked = Cardinality(linkedEntities)
            /\ response.matchLog = matchLog)

\* A call with debug on in single-phase mode has linked both phrases and
\* collected candidates and rejections on the way.
C11_Witness ==
    /\ host = "server" /\ wpc = "done" /\ debugArg /\ knownArg.isNull
    /\ response.stats.linked = 2
    /\ Len(response.matchLog) = 2
    /\ response.debugInfo.allCandidates # {}
    /\ Len(response.debugInfo.skippedAlreadyLinked) > 0

\* The names of the phrases in a list of diagnostics.
TextsOfList(list) == { list[i].text : i \in 1..Len(list) }

\* The occurrences of known names that findMatchesInText turns away in t
\* because they begin a sentence.
KnownAtSentenceStart(t, names) ==
    { n \in Range(names) : \E i \in OccurrencesOf(t, n) : isSentenceStart(t, i) }

\* C12 as stated: with debug on, the debugInfo that injectWikilinks returns
\* has the candidates, the accepted matches and the five rejection lists
\* (no match, overlap, part of a larger phrase, sentence start, already
\* linked); and what the resolver turned away in a leaf that was rewritten
\* is in the list of its reason: in single-phase mode the candidates that
\* are not in the catalogue, in two-phase mode the known names met at a
\* sentence start.
C12_DiagnosticsComplete ==
    (host = "server" /\ wpc = "done" /\ debugArg) =>
        /\ DOMAIN response.debugInfo =
               {"allCandidates", "matched", "skippedNoMatch", "skippedOverlap",
                "skippedPartOfLarger", "skippedSentenceStart", "skippedAlreadyLinked"}
        /\ \A l \in Leaves :
               ~Untouched(l) =>
                   IF knownArg.isNull
                   THEN Range(Unmatched(EntityMatcher_extractCandidates(leafText[l]),
                                        entitySet))
                            \subseteq Range(response.debugInfo.skippedNoMatch)
                   ELSE KnownAtSentenceStart(leafText[l], knownArg.names)
                            \subseteq TextsOfList(debugInfo.skippedSentenceStart)

\* C13: findMatchesInText returns only exact word-bounded occurrences of the
\* names it was given; the returned occurrences are disjoint and none
\* begins a sentence; and an occurrence of a given name is left out only
\* because it begins a sentence or overlaps a returned occurrence that is at
\* least as long: neither the skip-word and minimum-length filter nor the
\* part-of-larger-phrase check takes anything away.
C13_KnownNamesOnly ==
    InTextReady =>
        /\ \A i \in 1..Len(inTextMatches) :
               /\ inTextMatches[i].text \in entitySet
               /\ inTextMatches[i].index \in OccurrencesOf(text, inTextMatches[i].text)
               /\ ~StartsSentence(text, inTextMatches[i].index)
        /\ Disjoint(inTextMatches)
        /\ \A n \in entitySet : \A p \in OccurrencesOf(text, n) :
               \/ StartsSentence(text, p)
               \/ \E i \in 1..Len(inTextMatches) :
                      /\ Len(inTextMatches[i].text) >= Len(n)
                      /\ inTextMatches[i].index < p + Len(n)
                      /\ p < MatchEndOf(inTextMatches[i])

\* A known name that is too short for the candidate filter and stands
\* before a capitalised word is returned by findMatchesInText, while
\* findMatches returns nothing for the same text.
C13_Witness ==
    /\ InTextReady /\ MatchesReady
    /\ matches = <<>>
    /\ \E i \in 1..Len(inTextMatches) :
           /\ ~meetsMinLength(inTextMatches[i].text)
           /\ isPartOfLargerPhrase(text, inTextMatches[i].index,
                                   MatchEndOf(inTextMatches[i]))


\* C14: an unsuitable page falls back and never errors.  The handler passes a
\* discovered-name list to injectWikilinks exactly when the extractor reported
\* the page readerable; when the extractor threw, found the page not
\* readerable or got no article text, no list is passed, the request does not
\* end in the error path, and every text node that is matched goes through
\* EntityMatcher.findMatches (through findMatchesInText when a list was passed).
Unsuitable(x) == x.kind # "article" \/ x.textContent = ""

C14_FallbackOnUnsuitable ==
    /\ [](/\ spc # "error"
          /\ spc \in {"injectWikilinks", "sent"} /\ ~isIndex =>
                /\ knownArg.isNull <=> ~readability.isReaderable
                /\ Unsuitable(extractor) => knownArg.isNull)
    /\ [][AtMatchedTextNode =>
            lastMatches' =
                IF knownArg.isNull
                THEN EntityMatcher_findMatches(entitySet, dom[TopChild], debugArg).result
                ELSE EntityMatcher_findMatchesInText(dom[TopChild], knownArg.names)]_vars

C14_Witness ==
    /\ spc = "sent" /\ extractor.kind = "throws"
    /\ knownArg.isNull /\ linkedEntities # {}


\* C15: the calls are independent.  Every call begins with a ledger, a trace
\* and a count of its own, whatever an earlier call left behind; and a page
\* processed after another page comes out exactly as it did when it was
\* processed first, alone: the same tree and the same returned record.
C15_PagesIndependent ==
    /\ [](calls = 3 /\ wpc = "done" =>
            firstResult = [recorded |-> TRUE, dom |-> dom, response |-> response])
    /\ [][wpc = "start" /\ wpc' = "walk" =>
            /\ linkedEntities' = {}
            /\ host = "server" => matchLog' = <<>> /\ debugInfo' = EmptyDebugInfo
            /\ host = "extension" => linkCount' = 0]_vars

C15_Witness ==
    /\ calls = 3 /\ wpc = "done"
    /\ queue[2] # queue[1]
    /\ linkedEntities = {"Oslo", "New York"}
    /\ firstResult.recorded


\* A capitalized word stands at [p, q): an upper-case letter, then one or more
\* letters, apostrophes or hyphens, as far as they go.
CapitalizedAt(t, p, q) ==
    /\ p + 2 <= q /\ q <= Len(t)
    /\ At(t, p) \in Upper
    /\ \A k \in (p + 1)..(q - 1) : At(t, k) \in CapsTail
    /\ q = Len(t) \/ At(t, q) \notin CapsTail

\* The ends of the runs that go on after a word that ended at q: white space,
\* then a capitalized word that may close the run, or a capitalized word or a
\* filler and more of the run.
RECURSIVE BridgedEnds(_, _)
BridgedEnds(t, q) ==
    LET w == RunEnd(t, q, Space)
        caps == { e \in (w + 2)..Len(t) : CapitalizedAt(t, w, e) }
        fills == { w + Len(f) : f \in { g \in FILLERS : /\ w + Len(g) <= Len(t)
                                                          /\ Slice(t, w, w + Len(g)) = g } }
    IN  IF w = q THEN {}
        ELSE { e \in caps : WordBoundary(t, e) }
             \cup UNION { BridgedEnds(t, e) : e \in caps \cup fills }

\* The ends of the bridged runs whose first word begins at p.
RunsFrom(t, p) ==
    IF WordBoundary(t, p)
    THEN UNION { BridgedEnds(t, c) : c \in { q \in (p + 2)..Len(t) : CapitalizedAt(t, p, q) } }
    ELSE {}

\* C16: filler bridging.  A run of the text that begins and ends with a
\* capitalized word, whose inner words are capitalized words or fillers (of,
\* and, in, on, under, the, for), and that lies in no longer run, is one
\* candidate of extractCandidates; "President of the United States" is a
\* candidate of its sentence, and with the catalogue {"Secretary of State"}
\* findMatches("she served as Secretary of State last year.") returns the
\* match "Secretary of State".
C16_FillerBridging ==
    /\ CandidatesReady =>
          \A p \in 0..(Len(text) - 1) :
              (/\ RunsFrom(text, p) # {}
               /\ \A b \in 0..(p - 1) : \A e \in RunsFrom(text, b) : e <= p)
              => \/ Slice(text, p, Max(RunsFrom(text, p))) \in Range(candidates)
                 \/ Slice(text, p, Max(RunsFrom(text, p))) \in SKIP_WORDS
    /\ CandidatesReady /\ text = "he met the President of the United States today."
          => "President of the United States" \in Range(candidates)
    /\ MatchesReady /\ text = "she served as Secretary of State last year."
          => \E i \in 1..Len(matches) :
                 matches[i].text = "Secretary of State" /\ matches[i].index = 14

C16_Witness ==
    /\ MatchesReady /\ text = "she served as Secretary of State last year."
    /\ entitySet = {"Secretary of State"}
    /\ "Secretary of State" \in Range(candidates)
    /\ Len(matches) = 1


\* The links that stand on the page around the phrases of ps.
RECURSIVE TotalLinks(_)
TotalLinks(ps) ==
    IF ps = {} THEN 0
    ELSE LET p == CHOOSE x \in ps : TRUE
         IN  LinkCount(p) + TotalLinks(ps \ {p})

\* C17: the count of a call.  When the call has returned, the count it
\* reports (stats.linked on the server, the count of the badge message in
\* the browser, where no message is sent for a count of 0) is the number of
\* links the call put on the page, and that is the number of distinct
\* phrases that are linked on the page.
C17_CountIsLinksMade ==
    (wpc = "done" /\ host \in {"server", "extension"}) =>
        /\ TotalLinks(entitySet) = Cardinality({ p \in entitySet : LinkCount(p) >= 1 })
        /\ host = "server" => response.stats.linked = TotalLinks(entitySet)
        /\ host = "extension" =>
              IF response.sent THEN response.count = TotalLinks(entitySet)
              ELSE TotalLinks(entitySet) = 0

\* A browser call that linked both phrases although later text nodes held
\* them again.
C17_Witness ==
    /\ wpc = "done" /\ host = "extension"
    /\ response.sent /\ response.count = 2
    /\ Cardinality({ l \in Leaves : CountIn(leafText[l], "Oslo") >= 1 }) >= 2
    /\ roots = <<"e1">>


\* C18: every match of findMatches is sound.  Its text is a title of the
\* catalogue; the normalised buffer holds exactly that text at
\* [index, index + length); a word boundary stands at both ends of the range
\* ("Google" is not matched inside "Googled"); and with an empty catalogue
\* the list is empty.
C18_MatchesSound ==
    MatchesReady =>
        /\ \A i \in 1..Len(matches) :
              /\ matches[i].text \in entitySet
              /\ matches[i].index >= 0
              /\ MatchEndOf(matches[i]) <= Len(normaliseCurlyQuotes(text))
              /\ Slice(normaliseCurlyQuotes(text), matches[i].index, MatchEndOf(matches[i]))
                    = matches[i].text
              /\ WordBoundary(normaliseCurlyQuotes(text), matches[i].index)
              /\ WordBoundary(normaliseCurlyQuotes(text), MatchEndOf(matches[i]))
        /\ entitySet = {} => matches = <<>>
        /\ text = "he Googled something" => matches = <<>>

\* "Google" is matched where it stands as a word, after "Googled".
C18_Witness ==
    /\ MatchesReady /\ text = "he Googled it on Google today."
    /\ matches = <<[text |-> "Google", index |-> 17]>>


\* The URLs that following every redirect of the network's answers leads to,
\* the first being the URL asked for.
RECURSIVE Hops(_, _)
Hops(u, rs) ==
    <<u>> \o (IF rs # <<>> /\ Head(rs).kind = "redirect" /\ Head(rs).location \notin {NULL, ""}
              THEN Hops(ResolveUrl(Head(rs).location, u), Tail(rs))
              ELSE <<>>)

HopAllowed(u) == allowedDomains.given /\ isUrlAllowed(u, allowedDomains.domains)

\* C19: fetchPage requests allowed URLs only.  Every URL handed to fetch() is
\* a hop of the redirect chain that isUrlAllowed accepts, and at most
\* MAX_REDIRECTS + 1 requests are made; when the URL asked for or a redirect
\* target that the call reaches is not allowed, the call throws a
\* "URL blocked" error without requesting it; and when more than
\* MAX_REDIRECTS redirects follow one another, all to allowed URLs, the call
\* throws "Too many redirects".
C19_OnlyAllowedFetched ==
    fpc # "idle" =>
        /\ Len(requested) <= MAX_REDIRECTS + 1
        /\ \A i \in 1..Len(requested) :
              /\ HopAllowed(requested[i])
              /\ i <= Len(Hops(fetchUrl, responses))
              /\ requested[i] = Hops(fetchUrl, responses)[i]
        /\ (fpc = "done" /\ allowedDomains.given) =>
              /\ \A j \in 1..Min({Len(Hops(fetchUrl, responses)), MAX_REDIRECTS + 2}) :
                    (/\ ~HopAllowed(Hops(fetchUrl, responses)[j])
                     /\ \A i \in 1..(j - 1) : HopAllowed(Hops(fetchUrl, responses)[i]))
                    => /\ fetchResult.kind = "throw"
                       /\ Includes(fetchResult.message, "URL blocked")
                       /\ Len(requested) = j - 1
              /\ (/\ Len(Hops(fetchUrl, responses)) > MAX_REDIRECTS + 1
                  /\ \A j \in 1..(MAX_REDIRECTS + 2) :
                        HopAllowed(Hops(fetchUrl, responses)[j]))
                 => /\ fetchResult = Thrown("Too many redirects")
                    /\ Len(requested) = MAX_REDIRECTS + 1

\* Six redirects, every one to an allowed URL, one of them relative.
C19_Witness ==
    /\ fpc = "done" /\ fetchUrl = "http://News.BBC.com/b"
    /\ fetchResult = Thrown("Too many redirects")
    /\ Len(requested) = 6
    /\ requested[2] = "http://News.BBC.com/sport"


\* C20 as stated: the cache keeps to its maximum size.  After every
\* completed set the sizes of the indexed entries add up to maxSize at most
\* and the entry just set is there to be read; and the entries that
\* evictIfNeeded removed were accessed no later than any entry it kept.
C20_CacheWithinMaxSize ==
    /\ cacheOp.op = "set" =>
          /\ TotalSize(cacheIndex) <= CacheMaxSize
          /\ cacheOp.key \in KeysOf(cacheIndex)
          /\ cacheOp.key \in cacheFiles
          /\ EntryOf(cacheIndex, cacheOp.key).size = cacheOp.size
    /\ cacheOp.op = "evict" =>
          \A i \in 1..Len(cacheOp.evicted) : \A j \in 1..Len(cacheIndex) :
              cacheOp.evicted[i].accessed <= cacheIndex[j].accessed

-----------------------------------------------------------------------------
(* Properties of the roots, of the text a walk leaves behind and of        *)
(* repeated processing.                                                    *)

\* The classifier's decision on element e by what e itself is: its own tag
\* (LI, TH and TD let through), the selectors e itself matches and its own
\* class, or an e that already is a wikilink.
SkipsOnOwnAccount(e) ==
    \/ /\ toUpperCase(page[e].tagName) \notin ALLOW_INSIDE_ARTICLE
       /\ shouldSkipElement(page[e],
              [s \in Range(SKIP_SELECTORS) |->
                   IF s \in page[e].attrs THEN "true" ELSE "false"],
              getClassAdapter(page, e))
    \/ Includes(page[e].class, "wikilink")

\* The elements on the way from root r down to node n, r not among them.
Between(r, n) == { e \in Ancestors(n) : r \in Ancestors(e) }

\* Text leaf l is eligible inside root r: it has text to match, it stands
\* in no hyperlink, and no element between r and l is one the classifier
\* turns away on its own account.
EligibleInside(r, l) ==
    /\ r \in Ancestors(l)
    /\ Len(Trim(leafText[l])) >= 3
    /\ \A a \in Ancestors(l) : ~IsA(a)
    /\ \A e \in Between(r, l) : ~SkipsOnOwnAccount(e)

\* C21 as stated: the root is entered whatever its tag, the selectors it
\* matches and its class are, and below it only the descendants count, each
\* on its own account: after the call every phrase that matches in a text
\* leaf eligible inside a root is linked on the page.
C21_RootNeverPreventsLinking ==
    (host \in {"server", "extension"} /\ wpc = "done") =>
        \A k \in 1..Len(roots) : \A l \in Leaves :
            EligibleInside(roots[k], l) =>
                TextsIn(findMatches(leafText[l], entitySet)) \subseteq linkedEntities

-----------------------------------------------------------------------------
(* One call on a page whose text has an HTML-escaped character and a curly *)
(* apostrophe.  On the server a leaf's text is its rawText, escapes        *)
(* included; in the browser it is the node's textContent.                  *)

EscapedLeafTexts ==
    {[l \in Leaves |-> CASE l = "t1" -> "so Tom &amp; Co met Oslo with O^Brien."
                         [] l = "t2" -> "so Oslo met New York."
                         [] l = "t3" -> " \n "],
     [l \in Leaves |-> CASE l = "t1" -> "so Oslo met New York."
                         [] l = "t2" -> "in O'Brien & Co, so O^Brien met Oslo."
                         [] l = "t3" -> "so Oslo met O'Brien."]}

EscapedCatalogue == {"New York", "Oslo", "O'Brien"}

InitText ==
    /\ IdleSkip /\ IdleMatcher /\ IdleServer /\ IdlePages /\ IdleFetch /\ IdleCache
    /\ IdleContent /\ IdleRace
    /\ entitySet = EscapedCatalogue
    /\ page = [e \in Elements |-> PlainElement]
    /\ leafText \in EscapedLeafTexts
    /\ roots \in RootChoices
    /\ \/ /\ host = "server"
          /\ debugArg \in BOOLEAN
          /\ knownArg \in {[isNull |-> TRUE, names |-> <<>>],
                                [isNull |-> FALSE, names |-> KnownEntities]}
          /\ dom = leafText
       \/ /\ host = "extension"
          /\ debugArg = FALSE
          /\ knownArg = [isNull |-> TRUE, names |-> <<>>]
          /\ dom = [l \in Leaves |-> <<TextNode(leafText[l])>>]
    /\ wpc = "start"
    /\ rootIdx = 0
    /\ stack = <<>>
    /\ linkedEntities = {}
    /\ debugInfo = EmptyDebugInfo
    /\ matchLog = <<>>
    /\ linkCount = 0
    /\ lastMatches = <<>>
    /\ response = NoResponse

SpecText == InitText /\ [][Next]_vars

HasPrefix(s, pre) == Len(s) >= Len(pre) /\ Slice(s, 0, Len(pre)) = pre

\* What a browser shows for raw text: every character reference decoded
\* once, from left to right.
RECURSIVE Unescape(_)
Unescape(s) ==
    LET amps == { p \in 0..(Len(s) - 1) : At(s, p) = "&" }
        p == Min(amps)
        rest == Slice(s, p, Len(s))
        Decoded(ref, c) == Slice(s, 0, p) \o c \o Unescape(Slice(rest, Len(ref), Len(rest)))
    IN  IF amps = {} THEN s
        ELSE IF HasPrefix(rest, "&amp;") THEN Decoded("&amp;", "&")
        ELSE IF HasPrefix(rest, "&lt;") THEN Decoded("&lt;", "<")
        ELSE IF HasPrefix(rest, "&gt;") THEN Decoded("&gt;", ">")
        ELSE IF HasPrefix(rest, "&quot;") THEN Decoded("&quot;", "\"")
        ELSE Decoded("&", "&")

\* Raw text without its tags.
RECURSIVE StripTags(_)
StripTags(s) ==
    LET opens == { p \in 0..(Len(s) - 1) : At(s, p) = "<" }
        p == Min(opens)
        q == Min({ k \in p..(Len(s) - 1) : At(s, k) = ">" })
    IN  IF opens = {} THEN s
        ELSE Slice(s, 0, p) \o StripTags(Slice(s, q + 1, Len(s)))

RECURSIVE NodeTexts(_)
NodeTexts(nodes) ==
    IF nodes = <<>> THEN "" ELSE Head(nodes).text \o NodeTexts(Tail(nodes))

\* The visible text of slot l now and when the page was loaded.
VisibleText(l) ==
    IF host = "server" THEN Unescape(StripTags(dom[l])) ELSE NodeTexts(dom[l])

OriginalVisibleText(l) ==
    IF host = "server" THEN Unescape(leafText[l]) ELSE leafText[l]

\* C22 as stated: whatever the walk has done to a text leaf, the leaf's
\* visible text (the text outside the links and the link texts in document
\* order, character references decoded) is the visible text the leaf had
\* when the page was loaded, curly quotes and escaped characters included.
C22_VisibleTextPreserved ==
    host \in {"server", "extension"} =>
        \A l \in Leaves : VisibleText(l) = OriginalVisibleText(l)

\* The three rules of the classifier, read off the element and the two
\* callbacks of the call.
TagRule ==
    /\ ~skElement.isNull
    /\ skElement.tagName \notin {UNDEFINED, THROWS, ""}
    /\ toUpperCase(skElement.tagName) \in SKIP_TAGS

SelectorRule == \E s \in Range(SKIP_SELECTORS) : skClosestFn[s] = "true"

ClassRule ==
    /\ skGetClassFn.kind = "string"
    /\ \E pattern \in SKIP_CLASS_PATTERNS :
           Includes(toLowerCase(skGetClassFn.value), pattern)

\* Something the call touches raises an error.
ErrorRaised ==
    \/ ~skElement.isNull /\ skElement.tagName = THROWS
    \/ \E s \in Range(SKIP_SELECTORS) : skClosestFn[s] = THROWS
    \/ skGetClassFn.kind \in {THROWS, "object"}

\* C23: shouldSkipElement returns true whenever the tag name, upper-cased,
\* is in SKIP_TAGS, or the selector callback returns true for a selector of
\* SKIP_SELECTORS, or a class callback is supplied and the element's class
\* contains a pattern of SKIP_CLASS_PATTERNS, upper and lower case alike;
\* and when none of the three holds and nothing raises an error, it
\* returns false.
C23_SkipExactlyOnRule ==
    skpc = "done" =>
        /\ (TagRule \/ SelectorRule \/ ClassRule) => skResult = TRUE
        /\ (~TagRule /\ ~SelectorRule /\ ~ClassRule /\ ~ErrorRaised) => skResult = FALSE

\* A P element that no selector matches is skipped for its class alone,
\* which has the patterns in upper case.
C23_Witness ==
    /\ skpc = "done"
    /\ skElement = [isNull |-> FALSE, tagName |-> "P"]
    /\ \A s \in Range(SKIP_SELECTORS) : skClosestFn[s] = "false"
    /\ skGetClassFn = [kind |-> "string", value |-> "Sidebar-Promo"]
    /\ skResult = TRUE

-----------------------------------------------------------------------------
(* One call on a page that has a list item or a table cell below the root. *)

ListElements ==
    {[isNull |-> FALSE, tagName |-> "LI", attrs |-> {}, class |-> ""],
     [isNull |-> FALSE, tagName |-> "LI", attrs |-> {"[role=\"navigation\"]"}, class |-> ""],
     [isNull |-> FALSE, tagName |-> "TD", attrs |-> {"[aria-hidden=\"true\"]"}, class |-> ""],
     [isNull |-> FALSE, tagName |-> "LI", attrs |-> {}, class |-> "nav-item"],
     [isNull |-> FALSE, tagName |-> "TH", attrs |-> {}, class |-> "related"]}

ListPages ==
    { [e \in Elements |-> IF e = x THEN item ELSE PlainElement] :
          x \in {"e2", "e3", "e4"}, item \in ListElements }

InitList ==
    /\ IdleSkip /\ IdleMatcher /\ IdleServer /\ IdlePages /\ IdleFetch /\ IdleCache
    /\ IdleContent /\ IdleRace
    /\ entitySet = WalkCatalogue
    /\ page \in ListPages
    /\ leafText \in LeafTexts
    /\ roots \in RootChoices
    /\ \/ /\ host = "server"
          /\ debugArg \in BOOLEAN
          /\ knownArg \in {[isNull |-> TRUE, names |-> <<>>],
                                [isNull |-> FALSE, names |-> KnownEntities]}
          /\ dom = leafText
       \/ /\ host = "extension"
          /\ debugArg = FALSE
          /\ knownArg = [isNull |-> TRUE, names |-> <<>>]
          /\ dom = [l \in Leaves |-> <<TextNode(leafText[l])>>]
    /\ wpc = "start"
    /\ rootIdx = 0
    /\ stack = <<>>
    /\ linkedEntities = {}
    /\ debugInfo = EmptyDebugInfo
    /\ matchLog = <<>>
    /\ linkCount = 0
    /\ lastMatches = <<>>
    /\ response = NoResponse

SpecList == InitList /\ [][Next]_vars

\* Element e itself matches a skip selector, or its own class contains a
\* skip pattern.
SelectorOrClassSkips(e) ==
    \/ page[e].attrs \cap Range(SKIP_SELECTORS) # {}
    \/ hasSkipClassPattern(getClassAdapter(page, e))

\* C24 as stated: an LI, TH or TD below a root that matches a skip selector
\* or has a skip pattern in its class is skipped all the same: the text
\* leaves below it (no other root in between) are never changed.
C24_ListItemsStillClassified ==
    host \in {"server", "extension"} =>
        \A e \in Elements : \A l \in Leaves :
            (/\ toUpperCase(page[e].tagName) \in ALLOW_INSIDE_ARTICLE
             /\ e \notin Range(roots)
             /\ Ancestors(e) \cap Range(roots) # {}
             /\ SelectorOrClassSkips(e)
             /\ e \in Ancestors(l)
             /\ Between(e, l) \cap Range(roots) = {})
                => Untouched(l)

-----------------------------------------------------------------------------
(* Properties of the position findMatches examines.                        *)

\* The first word-boundary occurrence of name in t (t holds one).
FirstOccurrence(t, name) == Min(OccurrencesOf(t, name))

\* The occurrence of name at start would pass the two contextual filters.
PassesFilters(t, name, start) ==
    /\ ~isPartOfLargerPhrase(t, start, start + Len(name))
    /\ ~isSentenceStart(t, start)

\* C25: findMatches looks at every catalogued phrase at one position, its
\* first word-boundary occurrence in the (normalised) buffer.  Every match
\* stands at the first occurrence of its phrase; no phrase is returned
\* twice; and a phrase whose first occurrence begins a sentence, is part of
\* a larger phrase or overlaps a longer returned match is not returned,
\* whatever its later occurrences are.
C25_FirstOccurrenceExamined ==
    MatchesReady =>
        \E norm \in {normaliseCurlyQuotes(text)} :
            /\ \A i \in 1..Len(matches) :
                   /\ OccurrencesOf(norm, matches[i].text) # {}
                   /\ matches[i].index = FirstOccurrence(norm, matches[i].text)
            /\ \A i, j \in 1..Len(matches) :
                   i # j => matches[i].text # matches[j].text
            /\ \A p \in entitySet :
                   OccurrencesOf(norm, p) # {} =>
                       \E first \in {FirstOccurrence(norm, p)} :
                           (\/ ~PassesFilters(norm, p, first)
                            \/ \E j \in 1..Len(matches) :
                                   /\ Len(matches[j].text) > Len(p)
                                   /\ matches[j].index < first + Len(p)
                                   /\ first < MatchEndOf(matches[j]))
                               => p \notin TextsIn(matches)

\* A catalogued phrase begins the buffer, stands a second time where it
\* would pass both filters, and is not in the result.
C25_Witness ==
    /\ MatchesReady
    /\ \E p \in entitySet : \E norm \in {normaliseCurlyQuotes(text)} :
           /\ Cardinality(OccurrencesOf(norm, p)) >= 2
           /\ isSentenceStart(norm, FirstOccurrence(norm, p))
           /\ \E q \in OccurrencesOf(norm, p) :
                  /\ q > FirstOccurrence(norm, p)
                  /\ PassesFilters(norm, p, q)
                  /\ \A j \in 1..Len(matches) :
                         \/ MatchEndOf(matches[j]) <= q
                         \/ q + Len(p) <= matches[j].index
           /\ p \notin TextsIn(matches)

-----------------------------------------------------------------------------
(* One call on a page that names a longer phrase twice, with a shorter     *)
(* catalogued phrase inside it.                                            *)

OverlapLeafTexts ==
    {[l \in Leaves |-> CASE l = "t1" -> "he saw New York City today."
                         [] l = "t2" -> "so New York City met Oslo."
                         [] l = "t3" -> " \n "],
     [l \in Leaves |-> CASE l = "t1" -> "so Oslo met New York City."
                         [] l = "t2" -> "in New York City, so New York met Oslo."
                         [] l = "t3" -> "he saw New York City today."]}

OverlapCatalogue == {"New York City", "New York", "Oslo"}

OverlapKnownEntities == <<"Oslo", "New York", "New York City">>

InitOverlap ==
    /\ IdleSkip /\ IdleMatcher /\ IdleServer /\ IdlePages /\ IdleFetch /\ IdleCache
    /\ IdleContent /\ IdleRace
    /\ entitySet = OverlapCatalogue
    /\ page = [e \in Elements |-> PlainElement]
    /\ leafText \in OverlapLeafTexts
    /\ roots \in RootChoices
    /\ \/ /\ host = "server"
          /\ debugArg \in BOOLEAN
          /\ knownArg \in {[isNull |-> TRUE, names |-> <<>>],
                                [isNull |-> FALSE, names |-> OverlapKnownEntities]}
          /\ dom = leafText
       \/ /\ host = "extension"
          /\ debugArg = FALSE
          /\ knownArg = [isNull |-> TRUE, names |-> <<>>]
          /\ dom = [l \in Leaves |-> <<TextNode(leafText[l])>>]
    /\ wpc = "start"
    /\ rootIdx = 0
    /\ stack = <<>>
    /\ linkedEntities = {}
    /\ debugInfo = EmptyDebugInfo
    /\ matchLog = <<>>
    /\ linkCount = 0
    /\ lastMatches = <<>>
    /\ response = NoResponse

SpecOverlap == InitOverlap /\ [][Next]_vars

\* A text leaf, not changed so far, that the walk is about to match.
AtFreshTextNode ==
    /\ host \in {"server", "extension"} /\ wpc = "walk"
    /\ HasChild /\ TopChild \in Leaves
    /\ ~Top.nowInsideLink
    /\ Untouched(TopChild)
    /\ Len(Trim(leafText[TopChild])) >= 3

\* An occurrence of short and an occurrence of long share a character of t.
OverlapIn(t, short, long) ==
    \E p \in OccurrencesOf(t, short) : \E q \in OccurrencesOf(t, long) :
        p < q + Len(long) /\ q < p + Len(short)

\* C26 as stated: when the walk matches a text leaf in which a phrase not
\* yet linked on the page overlaps a longer phrase that is already in the
\* ledger, the shorter phrase is linked in this leaf.
C26_SkippedMatchCostsNoLink ==
    [][AtFreshTextNode =>
          \E l \in {TopChild} :
              \A long \in linkedEntities : \A short \in entitySet \ linkedEntities :
                  (/\ Len(short) < Len(long)
                   /\ OverlapIn(leafText[l], short, long))
                      => /\ short \in linkedEntities'
                         /\ LinksIn(l, short)' = 1
      ]_vars

-----------------------------------------------------------------------------
(* One call whose article selector picks an element and one of its         *)
(* descendants, on a page that names a phrase with a hyphen and a space.   *)

NestedLeafTexts ==
    {[l \in Leaves |-> CASE l = "t1" -> "so Oslo met Jean today."
                         [] l = "t2" -> "he met Jean-Luc Picard."
                         [] l = "t3" -> " \n "],
     [l \in Leaves |-> CASE l = "t1" -> " \n "
                         [] l = "t2" -> "so Oslo met New York."
                         [] l = "t3" -> "he met Jean-Luc Picard."]}

NestedCatalogues == {{"Jean-Luc Picard", "Jean", "Oslo"}, {"Jean-Luc Picard", "Oslo", "New York"}}

NestedKnownEntities == <<"Oslo", "Jean", "Jean-Luc Picard">>

NestedRootChoices == {<<"e1", "e3">>, <<"e2", "e4">>, <<"e1", "e2">>, <<"e3", "e4">>}

InitNested ==
    /\ IdleSkip /\ IdleMatcher /\ IdleServer /\ IdlePages /\ IdleFetch /\ IdleCache
    /\ IdleContent /\ IdleRace
    /\ entitySet \in NestedCatalogues
    /\ page = [e \in Elements |-> PlainElement]
    /\ leafText \in NestedLeafTexts
    /\ roots \in NestedRootChoices
    /\ \/ /\ host = "server"
          /\ debugArg \in BOOLEAN
          /\ knownArg \in {[isNull |-> TRUE, names |-> <<>>],
                                [isNull |-> FALSE, names |-> NestedKnownEntities]}
          /\ dom = leafText
       \/ /\ host = "extension"
          /\ debugArg = FALSE
          /\ knownArg = [isNull |-> TRUE, names |-> <<>>]
          /\ dom = [l \in Leaves |-> <<TextNode(leafText[l])>>]
    /\ wpc = "start"
    /\ rootIdx = 0
    /\ stack = <<>>
    /\ linkedEntities = {}
    /\ debugInfo = EmptyDebugInfo
    /\ matchLog = <<>>
    /\ linkCount = 0
    /\ lastMatches = <<>>
    /\ response = NoResponse

SpecNested == InitNested /\ [][Next]_vars

\* The walk of an earlier root of this call has handled text leaf l: the
\* root lies above l and nothing on the way down turned the walk away.
HandledBefore(l) ==
    \E k \in 1..(rootIdx - 1) :
        /\ roots[k] \in Ancestors(l)
        /\ \A e \in {roots[k]} \cup Between(roots[k], l) :
               ~IsA(e) /\ (e = roots[k] \/ ~SkipsOnOwnAccount(e))
        /\ \A e \in Ancestors(l) : page[e].attrs = {}

\* The walk is at a text leaf that it has handled before.
AtHandledTextNode ==
    /\ host \in {"server", "extension"} /\ wpc = "walk"
    /\ HasChild /\ TopChild \in Leaves
    /\ HandledBefore(TopChild)

\* C27 as stated: with one root inside another, a text leaf the walk comes
\* to a second time is left as it is: the tree, the ledger, the match log
\* and the count of links do not change, so that the tree is the one the
\* outermost roots alone give.
C27_NestedRootsHandleOnce ==
    [][AtHandledTextNode =>
          /\ dom' = dom
          /\ linkedEntities' = linkedEntities
          /\ matchLog' = matchLog
          /\ linkCount' = linkCount
      ]_vars

-----------------------------------------------------------------------------
(* extension/src/content.js as a whole: init(), which waits for the        *)
(* background's two answers, and the listener for settingsChanged, which   *)
(* is registered when the script is loaded.  A handler runs to its end     *)
(* before the next one starts; processPage has no await.                   *)

MaxMessages == 2

Running == wpc \in {"start", "walk"}

\* link.parentNode.replaceChild(document.createTextNode(link.textContent), link)
\* for every .wikilink of the document.
Unwrap(nodes) ==
    [k \in 1..Len(nodes) |->
        IF nodes[k].type = "a" THEN TextNode(nodes[k].text) ELSE nodes[k]]

InitContent ==
    /\ IdleSkip /\ IdleMatcher /\ IdleServer /\ IdlePages /\ IdleFetch /\ IdleCache
    /\ IdleRace
    /\ entitySet = {}
    /\ entitySetNull = TRUE
    /\ settings = [enabled |-> UNDEFINED]
    /\ initPc = "start"
    /\ delivered = 0
    /\ page = [e \in Elements |-> PlainElement]
    /\ leafText \in LeafTexts
    /\ roots \in RootChoices
    /\ host = "extension"
    /\ debugArg = FALSE
    /\ knownArg = [isNull |-> TRUE, names |-> <<>>]
    /\ dom = [l \in Leaves |-> <<TextNode(leafText[l])>>]
    /\ wpc = "idle"
    /\ rootIdx = 0
    /\ stack = <<>>
    /\ linkedEntities = {}
    /\ debugInfo = EmptyDebugInfo
    /\ matchLog = <<>>
    /\ linkCount = 0
    /\ lastMatches = <<>>
    /\ response = NoResponse

\* init() up to its await: the two messages are sent.
ContentInit ==
    /\ initPc = "start" /\ ~Running
    /\ initPc' = "awaiting"
    /\ UNCHANGED <<settings, delivered, entitySetNull>>
    /\ UNCHANGED <<matcherVars, skipVars, walkInput, walkState>>
    /\ UNCHANGED <<serverVars, pageVars, fetchVars, cacheVars, raceVars>>

\* init() after its await: entitySet and settings are set, and processPage
\* is called unless settings.enabled === false.
InitResume ==
    /\ initPc = "awaiting" /\ ~Running
    /\ initPc' = "done"
    /\ entitySet' = WalkCatalogue
    /\ entitySetNull' = FALSE
    /\ \E enabled \in {"true", "false", UNDEFINED} :
          /\ settings' = [enabled |-> enabled]
          /\ IF enabled = "false"
             THEN UNCHANGED <<wpc, rootIdx, stack>>
             ELSE wpc' = "start" /\ rootIdx' = 0 /\ stack' = <<>>
    /\ UNCHANGED <<dom, linkedEntities, debugInfo, matchLog, linkCount, lastMatches,
                   response, delivered>>
    /\ UNCHANGED <<text, mpc, candidates, matches, serverMatches, inTextMatches>>
    /\ UNCHANGED <<skipVars, walkInput>>
    /\ UNCHANGED <<serverVars, pageVars, fetchVars, cacheVars, raceVars>>

\* One of the two messages is rejected: init() ends in its catch.
InitFails ==
    /\ initPc = "awaiting" /\ ~Running
    /\ initPc' = "failed"
    /\ UNCHANGED <<settings, delivered, entitySetNull>>
    /\ UNCHANGED <<matcherVars, skipVars, walkInput, walkState>>
    /\ UNCHANGED <<serverVars, pageVars, fetchVars, cacheVars, raceVars>>

\* The listener on a settingsChanged message: the links are replaced by
\* their text, and processPage is called unless settings.enabled === false.
\* firstResult keeps what the first processPage left, for comparison.
SettingsChanged ==
    /\ ~Running /\ delivered < MaxMessages
    /\ delivered' = delivered + 1
    /\ dom' = [l \in Leaves |-> Unwrap(dom[l])]
    /\ firstResult' = IF ~firstResult.recorded /\ delivered = 0 /\ wpc = "done"
                      THEN [recorded |-> TRUE, dom |-> dom]
                      ELSE firstResult
    /\ \E enabled \in {"true", "false"} :
          /\ settings' = [enabled |-> enabled]
          /\ IF enabled = "false"
             THEN UNCHANGED <<wpc, rootIdx, stack>>
             ELSE wpc' = "start" /\ rootIdx' = 0 /\ stack' = <<>>
    /\ UNCHANGED <<linkedEntities, debugInfo, matchLog, linkCount, lastMatches, response>>
    /\ UNCHANGED <<initPc, entitySetNull, queue, calls>>
    /\ UNCHANGED <<matcherVars, skipVars, walkInput>>
    /\ UNCHANGED <<serverVars, fetchVars, cacheVars, raceVars>>

\* The text nodes of a slot that walkAndProcess hands to findMatches.
MatchedNodes(nodes) ==
    { k \in 1..Len(nodes) : nodes[k].type = "text" /\ Len(Trim(nodes[k].text)) >= 3 }

\* The walk is at a text node for which it calls findMatches.
AtFindMatches ==
    /\ host = "extension" /\ wpc = "walk"
    /\ HasChild /\ TopChild \in Leaves
    /\ ~Top.nowInsideLink
    /\ MatchedNodes(dom[TopChild]) # {}

WalkTextNodeLoaded ==
    /\ ~entitySetNull
    /\ WalkTextNode

\* A text child while entitySet is null: findMatches(text, null) throws at
\* entitySet.has(candidate) when the text has a candidate, which ends
\* processPage; with no candidate it returns no match.
WalkTextNodeUnloaded ==
    /\ entitySetNull
    /\ wpc = "walk" /\ host = "extension"
    /\ HasChild /\ TopChild \in Leaves
    /\ IF /\ AtFindMatches
          /\ \E k \in MatchedNodes(dom[TopChild]) :
                 extractCandidates(normaliseCurlyQuotes(dom[TopChild][k].text)) # <<>>
       THEN wpc' = "threw" /\ stack' = <<>>
       ELSE wpc' = wpc /\ stack' = Advance
    /\ lastMatches' = <<>>
    /\ UNCHANGED <<rootIdx, dom, linkedEntities, debugInfo, matchLog, linkCount, response>>
    /\ UNCHANGED <<walkInput, matcherVars, skipVars, restVars>>

NextContent ==
    \/ ContentInit
    \/ InitResume
    \/ InitFails
    \/ SettingsChanged
    \/ ProcessPage
    \/ WalkRoot
    \/ WalkChildElement
    \/ WalkTextNodeLoaded
    \/ WalkTextNodeUnloaded
    \/ WalkAndProcessReturn
    \/ ProcessPageReturn

SpecContent == InitContent /\ [][NextContent]_vars

\* C28 as stated: whenever the content script calls findMatches, entitySet
\* has been set to the loaded catalogue, however the answers to init() and
\* the settingsChanged messages interleave.
C28_CatalogueLoadedBeforeMatching ==
    AtFindMatches => ~entitySetNull

\* The links of a slot: each with its text and the offset at which it
\* stands in the text of the slot.
LinkSpots(nodes) ==
    { <<nodes[k].text, Len(NodeTexts(SubSeq(nodes, 1, k - 1)))>> :
          k \in { j \in 1..Len(nodes) : nodes[j].type = "a" } }

\* C29 as stated: when processPage has run again after a settingsChanged
\* message that leaves the extension enabled, every text slot carries links
\* on the same phrases at the same offsets as after the first processPage.
C29_ReprocessRoundTrip ==
    (/\ host = "extension" /\ wpc = "done"
     /\ firstResult.recorded
     /\ delivered >= 1
     /\ settings.enabled # "false")
        => \A l \in Leaves : LinkSpots(dom[l]) = LinkSpots(firstResult.dom[l])

-----------------------------------------------------------------------------
(* server/lib/cache.js with the first calls included.  this.index is null  *)
(* until a call of init has assigned it; every get and set that finds it   *)
(* null calls init, which waits for mkdir, then for readFile of the index  *)
(* file, and then assigns this.index.  saveIndex writes the index file.    *)

MaxInits == 2

RaceKeys == {"key1", "key2"}
RaceSizes == {1, 2}

\* The body of get(key) after the index is there: the index and the files
\* afterwards, whether the value was returned and whether saveIndex ran.
GetOutcome(index, files, key, time) ==
    IF key \notin KeysOf(index)
    THEN [index |-> index, files |-> files, hit |-> FALSE, saved |-> FALSE]
    ELSE IF time - EntryOf(index, key).accessed > CacheTtl
    THEN [index |-> Without(index, key), files |-> files \ {key}, hit |-> FALSE,
          saved |-> TRUE]
    ELSE IF key \in files
    THEN [index |-> Assign(index, [EntryOf(index, key) EXCEPT !.accessed = time]),
          files |-> files, hit |-> TRUE, saved |-> TRUE]
    ELSE [index |-> Without(index, key), files |-> files, hit |-> FALSE, saved |-> TRUE]

\* The keys with a completed set that no call has evicted or expired, each
\* with the time of its last access.
LiveWithout(live, keys) == { e \in live : e.key \notin keys }

LiveAfterGet(live, key, r, time) ==
    IF r.hit THEN LiveWithout(live, {key}) \cup {[key |-> key, accessed |-> time]}
    ELSE IF r.saved THEN LiveWithout(live, {key})
    ELSE live

InitRace ==
    /\ IdleSkip /\ IdleMatcher /\ IdleWalk /\ IdleServer /\ IdlePages /\ IdleFetch
    /\ IdleContent
    /\ entitySet = {}
    /\ cacheLoaded = FALSE
    /\ cacheIndex = <<>>
    /\ cacheDisk = <<>>
    /\ cacheInits = <<>>
    /\ cacheLive = {}
    /\ cacheFiles = {}
    /\ now = 0
    /\ cachePending = <<>>
    /\ cacheOp = [op |-> "init", key |-> "", size |-> 0, evicted |-> <<>>, hit |-> FALSE]

RaceOtherVars ==
    <<matcherVars, skipVars, walkInput, walkState, serverVars, pageVars, fetchVars,
      contentVars>>

\* get(key) or set(key, value) finds this.index null and calls init, which
\* waits for mkdir.
RaceEnterInit ==
    \E op \in {"get", "set"}, key \in RaceKeys, size \in RaceSizes :
        /\ ~cacheLoaded
        /\ Len(cacheInits) < MaxInits
        /\ op = "get" => size = 1
        /\ cacheInits' = Append(cacheInits,
                                [op |-> op, key |-> key, size |-> size,
                                 stage |-> "mkdir", data |-> <<>>])
        /\ cacheOp' = [op |-> "enter", key |-> key, size |-> size, evicted |-> <<>>,
                       hit |-> FALSE]
        /\ UNCHANGED <<cacheLoaded, cacheIndex, cacheDisk, cacheLive, cacheFiles, now,
                       cachePending, RaceOtherVars>>

\* init: the index file is read (a missing file gives the empty index).
RaceInitRead ==
    \E i \in 1..Len(cacheInits) :
        /\ cacheInits[i].stage = "mkdir"
        /\ cacheInits' = [cacheInits EXCEPT ![i].stage = "read", ![i].data = cacheDisk]
        /\ cacheOp' = [op |-> "read", key |-> cacheInits[i].key, size |-> 0,
                       evicted |-> <<>>, hit |-> FALSE]
        /\ UNCHANGED <<cacheLoaded, cacheIndex, cacheDisk, cacheLive, cacheFiles, now,
                       cachePending, RaceOtherVars>>

\* init assigns this.index and returns; the call goes on: get to its first
\* await after the lookup, set to the return of evictIfNeeded.
RaceInitAssign ==
    \E i \in 1..Len(cacheInits) :
        /\ cacheInits[i].stage = "read"
        /\ cacheLoaded' = TRUE
        /\ cacheInits' = [j \in 1..(Len(cacheInits) - 1) |->
                             IF j < i THEN cacheInits[j] ELSE cacheInits[j + 1]]
        /\ IF cacheInits[i].op = "get"
           THEN \E r \in {GetOutcome(cacheInits[i].data, cacheFiles, cacheInits[i].key, now)} :
                   /\ cacheIndex' = r.index
                   /\ cacheFiles' = r.files
                   /\ cacheDisk' = IF r.saved THEN r.index ELSE cacheDisk
                   /\ cacheLive' = LiveAfterGet(cacheLive, cacheInits[i].key, r, now)
                   /\ cacheOp' = [op |-> "get", key |-> cacheInits[i].key, size |-> 0,
                                  evicted |-> <<>>, hit |-> r.hit]
                   /\ UNCHANGED cachePending
           ELSE \E r \in {evictIfNeeded(cacheInits[i].data, cacheInits[i].size, <<>>)} :
                   /\ Len(cachePending) < MaxPending
                   /\ cacheIndex' = r.index
                   /\ cacheFiles' = cacheFiles \ KeysOf(r.evicted)
                   /\ cacheLive' = LiveWithout(cacheLive, KeysOf(r.evicted))
                   /\ cacheOp' = [op |-> "evict", key |-> cacheInits[i].key,
                                  size |-> cacheInits[i].size, evicted |-> r.evicted,
                                  hit |-> FALSE]
                   /\ cachePending' = Append(cachePending,
                                             [key |-> cacheInits[i].key,
                                              size |-> cacheInits[i].size])
                   /\ UNCHANGED cacheDisk
        /\ UNCHANGED <<now, RaceOtherVars>>

\* get(key) when this.index is set.
RaceGet ==
    \E key \in RaceKeys :
        /\ cacheLoaded
        /\ \E r \in {GetOutcome(cacheIndex, cacheFiles, key, now)} :
              /\ cacheIndex' = r.index
              /\ cacheFiles' = r.files
              /\ cacheDisk' = IF r.saved THEN r.index ELSE cacheDisk
              /\ cacheLive' = LiveAfterGet(cacheLive, key, r, now)
              /\ cacheOp' = [op |-> "get", key |-> key, size |-> 0, evicted |-> <<>>,
                             hit |-> r.hit]
        /\ UNCHANGED <<cacheLoaded, cacheInits, now, cachePending, RaceOtherVars>>

\* set(key, value) when this.index is set, up to the return of
\* evictIfNeeded(size).
RaceSetEvict ==
    \E key \in RaceKeys, size \in RaceSizes :
        /\ cacheLoaded
        /\ Len(cacheInits) + Len(cachePending) < MaxPending
        /\ \E r \in {evictIfNeeded(cacheIndex, size, <<>>)} :
              /\ cacheIndex' = r.index
              /\ cacheFiles' = cacheFiles \ KeysOf(r.evicted)
              /\ cacheLive' = LiveWithout(cacheLive, KeysOf(r.evicted))
              /\ cacheOp' = [op |-> "evict", key |-> key, size |-> size,
                             evicted |-> r.evicted, hit |-> FALSE]
        /\ cachePending' = Append(cachePending, [key |-> key, size |-> size])
        /\ UNCHANGED <<cacheLoaded, cacheInits, cacheDisk, now, RaceOtherVars>>

\* The rest of set: the file is written, the entry is put in the index and
\* saveIndex writes the index file.
RaceSetWrite ==
    \E i \in 1..Len(cachePending) :
        /\ cacheFiles' = cacheFiles \cup {cachePending[i].key}
        /\ \E index \in {Assign(cacheIndex,
                                [key |-> cachePending[i].key,
                                 size |-> cachePending[i].size, accessed |-> now])} :
              /\ cacheIndex' = index
              /\ cacheDisk' = index
        /\ cacheLive' = LiveWithout(cacheLive, {cachePending[i].key})
                            \cup {[key |-> cachePending[i].key, accessed |-> now]}
        /\ cachePending' = [j \in 1..(Len(cachePending) - 1) |->
                               IF j < i THEN cachePending[j] ELSE cachePending[j + 1]]
        /\ cacheOp' = [op |-> "set", key |-> cachePending[i].key,
                       size |-> cachePending[i].size, evicted |-> <<>>, hit |-> FALSE]
        /\ UNCHANGED <<cacheLoaded, cacheInits, now, RaceOtherVars>>

NextRace ==
    \/ Tick
    \/ RaceEnterInit
    \/ RaceInitRead
    \/ RaceInitAssign
    \/ RaceGet
    \/ RaceSetEvict
    \/ RaceSetWrite

SpecCacheRace == InitRace /\ [][NextRace]_vars

\* C30 as stated: the cache stays consistent however concurrent get and set
\* calls interleave, the first calls racing through init included.  Once
\* the index is there, every key whose set has completed and that no call
\* has evicted and whose time to live has not run out is in the index with
\* its file on disk, and the sizes of the indexed entries add up to maxSize
\* at most.
C30_CacheConsistentUnderInterleaving ==
    cacheLoaded =>
        /\ \A e \in cacheLive :
              now - e.accessed <= CacheTtl =>
                  /\ e.key \in KeysOf(cacheIndex)
                  /\ e.key \in cacheFiles
        /\ TotalSize(cacheIndex) <= CacheMaxSize

====
